---- MODULE Spec2Model ----
(***************************************************************************)
(* SOBERANO: the turn engine (package src/engine/ and the earlier          *)
(* single-file revision src/engine.py), the Director's event selection     *)
(* (src/director_integration.py) and the rule filter (src/rules.py).       *)
(***************************************************************************)
EXTENDS Integers, Sequences, FiniteSets, TLC

(***************************************************************************)
(* Bounds of the exploration.                                              *)
(***************************************************************************)
\* entries the log of a session in play may hold (every accepted action
\* appends one; the entry that ends the game comes on top)
MaxLog == 4
\* highest value of the turn counter
MaxTurn == 2
\* options one event may carry (each view may append a COLLAPSE option)
MaxOptions == 3
\* config.get('default_lock_turns', 8): the lock a newly enacted law gets
LockTurns == 8

(***************************************************************************)
(* Small helpers.                                                          *)
(***************************************************************************)
Range(s) == {s[i] : i \in DOMAIN s}

Pair(k, v) == [k |-> k, v |-> v]

\* dict.get(key, default) on a function
Get(d, key, default) == IF key \in DOMAIN d THEN d[key] ELSE default

\* list.remove(x): drops the first occurrence
RECURSIVE RemoveFirst(_, _)
RemoveFirst(s, x) ==
    IF s = <<>> THEN <<>>
    ELSE IF Head(s) = x THEN Tail(s)
    ELSE <<Head(s)>> \o RemoveFirst(Tail(s), x)

\* appends x and drops the oldest entry when the list exceeds bound
\* an append that refuses the new entry once the bound is reached
AppendWhileRoom(s, x, bound) ==
    IF Len(s) >= bound THEN s ELSE Append(s, x)

AppendBounded(s, x, bound) ==
    LET t == Append(s, x) IN IF Len(t) > bound THEN Tail(t) ELSE t

(***************************************************************************)
(* Reference data (data/policies.json, data/events.json): a catalog of     *)
(* the shape the code reads.                                               *)
(***************************************************************************)
Policy(id, tags, aversion, cost, passive, incompat) ==
    [id |-> id, permanent_tags |-> tags, aversion |-> aversion,
     activation_cost |-> cost, passive_effect |-> passive,
     incompatible_with |-> incompat]

\* "absolutism", active by default, has no entry here: a policy id the
\* catalog does not know, which the engine has to tolerate
db_policies ==
    << Policy("serfdom", <<"tyrant">>, <<>>, <<>>,
              <<Pair("military", 30)>>, <<>>),
       Policy("martial_law", <<"tyrant">>, <<"merciful">>,
              <<Pair("stability", -45)>>, <<>>, <<"serfdom">>) >>

PolicyIds == {"serfdom", "martial_law", "absolutism"}

\* next((p for p in db['policies'] if p['id'] == pid), None)
HasPolicy(pid) == \E i \in DOMAIN db_policies : db_policies[i].id = pid
FindPolicy(pid) ==
    db_policies[CHOOSE i \in DOMAIN db_policies :
        /\ db_policies[i].id = pid
        /\ \A j \in 1..(i-1) : db_policies[j].id # pid]

Option(id, effect, tags) ==
    [id |-> id, effect |-> effect, effect_tags |-> tags, blocked |-> "unset"]

Event(id, theme, drama, trig, text, opts) ==
    [id |-> id, theme |-> theme, drama_weight |-> drama,
     semantic_trigger |-> trig, text |-> text, options |-> opts,
     selection_method |-> "unset"]

db_events ==
    << Event(1, "hubris", 90, <<"midas">>, "",
             << Option("A", <<Pair("treasury", -60)>>, <<>>),
                Option("B", <<Pair("military", -100)>>, <<>>) >>),
       Event(2, "war", 60, <<>>, "",
             << Option("A", <<Pair("stability", -50)>>, <<"tyrant">>),
                Option("B", <<Pair("popularity", -50)>>, <<"merciful">>) >>) >>

\* an event as DynamicGenerator.generate_event returns it (drama_weight and
\* semantic_trigger not yet filled in: -1 and "missing")
DynamicEvents ==
    { [id |-> 1000, theme |-> "intrigue", drama_weight |-> -1,
       semantic_trigger |-> <<"missing">>, text |-> "",
       options |-> << Option("A", <<Pair("military", -50)>>, <<>>),
                      Option("B", <<Pair("treasury", -50),
                                    Pair("military", -40)>>, <<>>) >>,
       selection_method |-> "unset"] }

EventIds == {0, 1, 2, 1000, 99999}
OptionIds == {"A", "B", "COLLAPSE", "RESET", "Z"}

NoEvent == Event(0, "none", 0, <<>>, "", <<>>)
\* state['last_event']: None, a reference to a dict of the catalog
\* (kind "catalog", idx its position) or a dict owned by the session
None == [kind |-> "none", idx |-> 0, ev |-> NoEvent]
CatalogRef(i) == [kind |-> "catalog", idx |-> i, ev |-> NoEvent]
Owned(e) == [kind |-> "own", idx |-> 0, ev |-> e]
\* an exception in place of a returned event
Raised == [kind |-> "raise", idx |-> 0, ev |-> NoEvent]

VARIABLES
    engine,       \* which GameEngine class serves the session
    state,        \* the session's state dict
    all_events,   \* db['events'], the list the Director and the engine share
    op,           \* the operation called last
    result,       \* what it returned
    director_ret, \* what choose_event returned to the call just made
    rule_in,      \* input of the rule filter under SpecRules
    rule_out,     \* its output
    other,        \* a second session served from the same DB and Director
    arb,          \* a call of the arbiter (LLMDecisionEngine)
    sel,          \* a selection by a Director on a catalog of its own
    load,         \* a call of load_data on the files of the data folder
    gen           \* a call of DynamicGenerator.generate_event

vars ==
    <<engine, state, all_events, op, result, director_ret, rule_in, rule_out,
      other, arb, sel, load, gen>>

\* the dict the pending event refers to
Deref(le, events) == IF le.kind = "catalog" THEN events[le.idx] ELSE le.ev
Pending == Deref(state.last_event, all_events)

(***************************************************************************)
(* GameState (src/engine/game_state.py).                                   *)
(***************************************************************************)
apply_limits(value) ==
    IF value < 0 THEN 0 ELSE IF value > 100 THEN 100 ELSE value

StatNames == {"treasury", "military", "popularity", "stability"}
ExtraStatNames == {"agriculture", "commerce"}

reset(eng) ==
    [turn |-> 1,
     stats |-> [s \in (IF eng = "package" THEN StatNames
                       ELSE StatNames \cup ExtraStatNames) |-> 50],
     active_policies |-> <<"serfdom", "absolutism">>,
     blocked_policies |-> [p \in {} |-> 0],
     event_tags |-> <<>>,
     state_tags |-> <<>>,
     decision_memory |-> <<>>,
     log |-> 1,
     last_event |-> None,
     game_over |-> FALSE,
     stats_history |-> <<>>,
     theme_history |-> <<>>]

update_stat(st, stat_name, delta) ==
    IF stat_name \in DOMAIN st.stats
    THEN [st EXCEPT !.stats[stat_name] = apply_limits(@ + delta)]
    ELSE st

RECURSIVE update_stats(_, _)
update_stats(st, effects) ==
    IF effects = <<>> THEN st
    ELSE update_stats(update_stat(st, Head(effects).k, Head(effects).v),
                      Tail(effects))

add_log_entry(st) == [st EXCEPT !.log = @ + 1]

set_game_over(st) == add_log_entry([st EXCEPT !.game_over = TRUE])

add_event_tag(st, tag) ==
    IF tag \in Range(st.event_tags) THEN st
    ELSE [st EXCEPT !.event_tags = Append(@, tag)]

RECURSIVE add_event_tags(_, _)
add_event_tags(st, tags) ==
    IF tags = <<>> THEN st
    ELSE add_event_tags(add_event_tag(st, Head(tags)), Tail(tags))

add_to_theme_history(st, theme) ==
    [st EXCEPT !.theme_history = AppendBounded(@, theme, 8)]

add_to_decision_memory(st, decision_text) ==
    [st EXCEPT !.decision_memory = AppendBounded(@, decision_text, 12)]

(***************************************************************************)
(* TagManager (src/engine/tag_manager.py).                                 *)
(***************************************************************************)
state_tags_of(s) ==
    (IF s["treasury"] > 75 THEN <<"midas", "rich">>
     ELSE IF s["treasury"] < 10 THEN <<"bankrupt", "poor">>
     ELSE IF s["treasury"] < 25 THEN <<"poor">> ELSE <<>>)
    \o (IF s["military"] > 75 THEN <<"spartan">>
        ELSE IF s["military"] < 25 THEN <<"vulnerable">> ELSE <<>>)
    \o (IF s["popularity"] < 25 THEN <<"unpopular", "hated", "oppressor">>
        ELSE IF s["popularity"] > 75 THEN <<"beloved">> ELSE <<>>)
    \o (IF s["stability"] < 25 THEN <<"chaos">> ELSE <<>>)

calculate_state_tags(st) == [st EXCEPT !.state_tags = state_tags_of(st.stats)]

RECURSIVE get_law_tags(_)
get_law_tags(active) ==
    IF active = <<>> THEN <<>>
    ELSE (IF HasPolicy(Head(active))
          THEN FindPolicy(Head(active)).permanent_tags ELSE <<>>)
         \o get_law_tags(Tail(active))

\* list(set(event_tags + law_tags)): a set, in no particular order
get_reputation_tags(st) ==
    Range(st.event_tags \o get_law_tags(st.active_policies))

get_all_tags(st) == get_reputation_tags(st) \cup Range(st.state_tags)

(***************************************************************************)
(* PolicyManager (src/engine/policy_manager.py).                           *)
(***************************************************************************)
\* passive effects that reach the stats whether the policy is active or not
apply_passive_effects_decree(st, active) ==
    update_stats(st, FindPolicy("serfdom").passive_effect)

RECURSIVE apply_passive_effects(_, _)
apply_passive_effects(st, active) ==
    IF active = <<>> THEN st
    ELSE apply_passive_effects(
             IF HasPolicy(Head(active))
             THEN update_stats(st, FindPolicy(Head(active)).passive_effect)
             ELSE st,
             Tail(active))

\* a countdown that keeps the entries it has brought to 0
update_cooldowns_to_zero(st) ==
    LET old == st.blocked_policies
    IN [st EXCEPT !.blocked_policies = [p \in DOMAIN old |->
                                          IF old[p] > 0 THEN old[p] - 1 ELSE 0]]

update_cooldowns(st) ==
    LET old == st.blocked_policies
        keep == {p \in DOMAIN old : old[p] > 1}
    IN [st EXCEPT !.blocked_policies = [p \in keep |-> old[p] - 1]]

Ok(msg) == [status |-> "ok", msg |-> msg]
Error(msg) == [status |-> "error", msg |-> msg]
Ret(st, res) == [state |-> st, result |-> res]

\* cost_base: 10, doubled when the reputation tags meet the aversion list
toggle_cost(st, pol) ==
    IF Range(pol.aversion) \cap get_reputation_tags(st) # {} THEN 20 ELSE 10

\* the first activation cost the stats cannot pay, if any
CanPay(st, cost) ==
    \A i \in DOMAIN cost : ~(Get(st.stats, cost[i].k, 0) + cost[i].v < 0)

\* an enactment that also writes the law's tags among the event tags
enact_tagging(st, pol) ==
    LET paid == add_event_tags(update_stats(st, pol.activation_cost),
                               pol.permanent_tags)
    IN [paid EXCEPT
          !.active_policies = Append(@, pol.id),
          !.blocked_policies = (pol.id :> LockTurns) @@ @]

enact(st, pol) ==
    LET paid == update_stats(st, pol.activation_cost)
    IN [paid EXCEPT
          !.active_policies = Append(@, pol.id),
          !.blocked_policies = (pol.id :> LockTurns) @@ @]

\* a revocation that also advances the turn counter
revoke_advancing(st, pol) ==
    [st EXCEPT !.active_policies = RemoveFirst(@, pol.id), !.turn = @ + 1]

revoke(st, pol) ==
    [st EXCEPT !.active_policies = RemoveFirst(@, pol.id)]

\* a toggle that charges the stability cost before it validates the
\* activation costs
toggle_policy_charging(st, policy_id) ==
    IF st.game_over THEN Ret(st, Error("Game Over"))
    ELSE IF ~HasPolicy(policy_id) THEN Ret(st, Error("Invalid Law"))
    ELSE LET pol == FindPolicy(policy_id)
             cost_base == toggle_cost(st, pol)
             charged == update_stat(st, "stability", -cost_base)
         IN IF st.stats["stability"] < cost_base
            THEN Ret(st, Error("Insufficient Stability"))
            ELSE IF policy_id \in Range(st.active_policies)
            THEN Ret(add_log_entry(revoke(charged, pol)), Ok("Revoked"))
            ELSE IF ~CanPay(st, pol.activation_cost)
            THEN Ret(charged, Error("Lacks"))
            ELSE Ret(add_log_entry(enact(charged, pol)), Ok("Enacted"))

toggle_policy(st, policy_id) ==
    IF st.game_over THEN Ret(st, Error("Game Over"))
    ELSE IF ~HasPolicy(policy_id) THEN Ret(st, Error("Invalid Law"))
    ELSE LET pol == FindPolicy(policy_id)
             cost_base == toggle_cost(st, pol)
         IN IF st.stats["stability"] < cost_base
            THEN Ret(st, Error("Insufficient Stability"))
            ELSE IF policy_id \in Range(st.active_policies)
            THEN Ret(add_log_entry(
                        update_stat(revoke(st, pol), "stability", -cost_base)),
                     Ok("Revoked"))
            ELSE IF ~CanPay(st, pol.activation_cost)
            THEN Ret(st, Error("Lacks"))
            ELSE Ret(add_log_entry(
                        update_stat(enact(st, pol), "stability", -cost_base)),
                     Ok("Enacted"))

(***************************************************************************)
(* GameOverChecker (src/engine/game_over_checker.py).                      *)
(***************************************************************************)
NoCause == "none"

\* a terminal check with strict comparisons
game_over_cause_strict(s) ==
    IF s["stability"] < 0 THEN "Total Anarchy"
    ELSE IF s["popularity"] < 0 THEN "Popular Revolution"
    ELSE IF s["military"] < 0 THEN "External Conquest"
    ELSE IF s["treasury"] < 0 /\ s["military"] < 20
         THEN "State bankrupt and defenseless"
    ELSE NoCause

game_over_cause(s) ==
    IF s["stability"] <= 0 THEN "Total Anarchy"
    ELSE IF s["popularity"] <= 0 THEN "Popular Revolution"
    ELSE IF s["military"] <= 0 THEN "External Conquest"
    ELSE IF s["treasury"] <= 0 /\ s["military"] < 20
         THEN "State bankrupt and defenseless"
    ELSE NoCause

evt_death(cause) ==
    Event(99999, "game_over", 0, <<>>, cause, <<Option("RESET", <<>>, <<>>)>>)

check_game_over(st) ==
    IF st.game_over THEN st
    ELSE LET cause == game_over_cause(st.stats)
         IN IF cause # NoCause
            THEN [set_game_over(st) EXCEPT !.last_event = Owned(evt_death(cause))]
            ELSE st

(***************************************************************************)
(* EventManager (src/engine/event_manager.py).                             *)
(***************************************************************************)
validate_option_resources(st, option) ==
    \A i \in DOMAIN option.effect :
        LET delta == option.effect[i].v
            current == Get(st.stats, option.effect[i].k, 0)
        IN ~(delta < 0 /\ current + delta < 0)

collapse_option ==
    [id |-> "COLLAPSE",
     effect |-> <<Pair("stability", -15), Pair("popularity", -10)>>,
     effect_tags |-> <<>>, blocked |-> "no"]

\* an annotation without the anti-softlock option
prepare_event_options_plain(st, event) ==
    [event EXCEPT !.options =
        [i \in DOMAIN event.options |->
            [event.options[i] EXCEPT !.blocked =
                IF validate_option_resources(st, event.options[i])
                THEN "no" ELSE "yes"]]]

\* the event dict after prepare_event_options has annotated it in place
prepare_event_options(st, event) ==
    LET annotated ==
            [i \in DOMAIN event.options |->
                [event.options[i] EXCEPT !.blocked =
                    IF validate_option_resources(st, event.options[i])
                    THEN "no" ELSE "yes"]]
        options_blocked ==
            Cardinality({i \in DOMAIN annotated : annotated[i].blocked = "yes"})
    IN [event EXCEPT !.options =
            IF options_blocked = Len(event.options)
            THEN Append(annotated, collapse_option)
            ELSE annotated]

\* str(e['id']) == str(event_id)
SameId(a, b) == a = b

HasEvent(events, event_id) ==
    \E i \in DOMAIN events : SameId(events[i].id, event_id)
FindEvent(events, event_id) ==
    events[CHOOSE i \in DOMAIN events :
        /\ SameId(events[i].id, event_id)
        /\ \A j \in 1..(i-1) : ~SameId(events[j].id, event_id)]

HasOption(ev, option_id) ==
    \E i \in DOMAIN ev.options : ev.options[i].id = option_id
FindOption(ev, option_id) ==
    ev.options[CHOOSE i \in DOMAIN ev.options :
        /\ ev.options[i].id = option_id
        /\ \A j \in 1..(i-1) : ev.options[j].id # option_id]

\* the event resolve_event looks at: the pending one when its id matches,
\* otherwise the first catalog event with that id
Lookup(st, events, event_id) ==
    IF st.last_event.kind # "none"
       /\ SameId(Deref(st.last_event, events).id, event_id)
    THEN Deref(st.last_event, events)
    ELSE IF HasEvent(events, event_id) THEN FindEvent(events, event_id)
    ELSE NoEvent

decision_text(st, ev, opt, tags_new) ==
    [year |-> st.turn, title |-> ev.id, text |-> opt.id, tags |-> tags_new]

apply_choice(st, ev, opt) ==
    LET s1 == update_stats(st, opt.effect)
        s2 == add_event_tags(s1, opt.effect_tags)
        s3 == add_to_decision_memory(s2,
                  decision_text(st, ev, opt, opt.effect_tags))
        s4 == add_to_theme_history(s3, ev.theme)
    IN [add_log_entry(s4) EXCEPT !.last_event = None]

\* a collapse that puts the session back in play
resolve_collapse_reviving(st) ==
    LET s1 == update_stat(st, "stability", -15)
        s2 == update_stat(s1, "popularity", -10)
    IN [add_log_entry(s2) EXCEPT !.last_event = None, !.game_over = FALSE]

resolve_collapse(st) ==
    LET s1 == update_stat(st, "stability", -15)
        s2 == update_stat(s1, "popularity", -10)
    IN [add_log_entry(s2) EXCEPT !.last_event = None]

\* a reset that carries the policy ledger over into the new game
resolve_event_keeping_policies(st, events, event_id, option_id) ==
    IF event_id = 99999 \/ option_id = "RESET"
    THEN Ret([calculate_state_tags(reset("package")) EXCEPT
                 !.active_policies = st.active_policies,
                 !.blocked_policies = st.blocked_policies],
             [status |-> "reset", msg |-> ""])
    ELSE Ret(st, Error("Event not found"))

resolve_event(st, events, event_id, option_id) ==
    IF event_id = 99999 \/ option_id = "RESET"
    THEN Ret(calculate_state_tags(reset("package")), [status |-> "reset", msg |-> ""])
    ELSE IF option_id = "COLLAPSE"
    THEN Ret(resolve_collapse(st), Ok(""))
    ELSE LET ev == Lookup(st, events, event_id)
         IN IF ev = NoEvent THEN Ret(st, Error("Event not found"))
            ELSE IF ~HasOption(ev, option_id)
            THEN Ret(st, Error("Option not found"))
            ELSE LET opt == FindOption(ev, option_id)
                 IN IF ~validate_option_resources(st, opt)
                    THEN Ret(st, Error("Requires"))
                    ELSE Ret(apply_choice(st, ev, opt), Ok(""))

(***************************************************************************)
(* EnhancedIntelligentDirector (src/director_integration.py).              *)
(***************************************************************************)
\* what a call of choose_event leaves behind: it returns an event or raises,
\* and it may have written to the catalog and to the (shared) stats dict
DirOut(status, event, events, stats) ==
    [status |-> status, event |-> event, events |-> events, stats |-> stats]

\* a static selection that finds nothing and hands back None
choose_static_event_none(llm_instance, events) == {None}

\* _choose_static_event: RuleEngine (src/rules.py) defines filtrar_viaveis
\* and no filter_viable, so the first statement of the try block raises
\* AttributeError and the except clause answers with
\* random.choice(self.all_events), any event of the catalog; random.choice
\* raises IndexError on an empty catalog, and nothing catches that
choose_static_event(llm_instance, events) ==
    IF events = <<>> THEN {Raised}
    ELSE {CatalogRef(i) : i \in DOMAIN events}

\* _enhance_gamestate fills the missing stats of the dict it was handed
enhance_gamestate(stats) ==
    [s \in DOMAIN stats \cup StatNames \cup ExtraStatNames |-> Get(stats, s, 50)]

Abs(x) == IF x < 0 THEN -x ELSE x

validate_dynamic_event(event) ==
    /\ Len(event.options) = 2
    /\ \E i \in DOMAIN event.options : event.options[i].id = "A"
    /\ \E i \in DOMAIN event.options : event.options[i].id = "B"
    /\ \A i \in DOMAIN event.options : \A j \in DOMAIN event.options[i].effect :
           Abs(event.options[i].effect[j].v) <= 100

ensure_event_compatibility(event, events) ==
    [event EXCEPT
       !.semantic_trigger =
           IF @ # <<"missing">> THEN @
           ELSE IF events # <<>> THEN events[1].semantic_trigger ELSE <<>>,
       !.drama_weight =
           IF @ # -1 THEN @
           ELSE IF events # <<>> THEN events[1].drama_weight ELSE 50]

\* what DynamicGenerator.generate_event may hand back: a well-formed event,
\* a malformed one, None, or an exception
InvalidDynamicEvent ==
    [id |-> 1001, theme |-> "intrigue", drama_weight |-> -1,
     semantic_trigger |-> <<"missing">>, text |-> "",
     options |-> << Option("A", <<>>, <<>>) >>,
     selection_method |-> "unset"]

GeneratorOutcomes ==
    {[kind |-> "event", ev |-> e] : e \in DynamicEvents \cup {InvalidDynamicEvent}}
    \cup {[kind |-> "None", ev |-> NoEvent], [kind |-> "raise", ev |-> NoEvent]}

\* the static branch of choose_event, with the marks it writes on the event
static_selection(llm_instance, events, stats) ==
    { IF c = Raised THEN DirOut("raise", None, events, stats)
      ELSE IF c.kind = "catalog"
      THEN DirOut("return", c,
                  [events EXCEPT ![c.idx].selection_method = "static"], stats)
      ELSE DirOut("return", c, events, stats)
      : c \in choose_static_event(llm_instance, events) }

\* random.random() > self.dynamic_probability may come out either way
should_attempt_dynamic(game_over) == IF game_over THEN {FALSE} ELSE BOOLEAN

choose_event(llm_instance, generator, game_over, stats, events) ==
    UNION { IF should_use_dynamic /\ generator = "attached"
            THEN UNION { IF g.kind = "event" /\ validate_dynamic_event(g.ev)
                         THEN { DirOut("return",
                                  Owned(ensure_event_compatibility(
                                      [g.ev EXCEPT !.selection_method =
                                                      "dynamic_generation"],
                                      events)),
                                  events, enhance_gamestate(stats)) }
                         ELSE static_selection(llm_instance, events,
                                               enhance_gamestate(stats))
                         : g \in GeneratorOutcomes }
            ELSE static_selection(llm_instance, events, stats)
            : should_use_dynamic \in should_attempt_dynamic(game_over) }

(***************************************************************************)
(* GameEngine (src/engine/core.py).                                        *)
(***************************************************************************)
Out(st, events, res) == [state |-> st, events |-> events, result |-> res]
\* a turn's outcome, with what the Director handed back
TurnOut(st, events, res, ret) ==
    [state |-> st, events |-> events, result |-> res, ret |-> ret]

Status(s) == [status |-> s, msg |-> ""]

after_director(st, o) ==
    IF o.status = "raise"
    THEN TurnOut([st EXCEPT !.stats = o.stats], o.events, Status("raise"),
                 Raised)
    ELSE LET s1 == add_log_entry([st EXCEPT !.stats = o.stats,
                                            !.last_event = o.event])
             s2 == check_game_over(s1)
         IN TurnOut(s2, o.events,
                    IF s2.game_over THEN Status("game_over") ELSE Status("ok"),
                    o.event)

process_turn(st, events, llm_instance, generator) ==
    IF st.game_over THEN {TurnOut(st, events, Status("game_over"), None)}
    ELSE LET s1 == [st EXCEPT !.stats_history = AppendBounded(@, st.stats, 5),
                              !.turn = @ + 1]
             s2 == apply_passive_effects(s1, s1.active_policies)
             s3 == update_cooldowns(s2)
             s4 == calculate_state_tags(s3)
         IN { after_director(s4, o) :
                o \in choose_event(llm_instance, generator, s4.game_over,
                                   s4.stats, events) }

\* get_view_data: annotates the pending event's dict in place
get_view_data(st, events) ==
    IF st.last_event.kind = "none" \/ Deref(st.last_event, events).id = 99999
    THEN Out(st, events, Status("view"))
    ELSE LET prepared == prepare_event_options(st, Deref(st.last_event, events))
         IN IF st.last_event.kind = "catalog"
            THEN Out(st, [events EXCEPT ![st.last_event.idx] = prepared],
                     Status("view"))
            ELSE Out([st EXCEPT !.last_event.ev = prepared], events,
                     Status("view"))

(***************************************************************************)
(* GameEngine of the single-file revision (src/engine.py).                 *)
(***************************************************************************)
mono_update_tags(st) == [st EXCEPT !.state_tags = state_tags_of(st.stats)]

mono_init == mono_update_tags(reset("monolith"))

mono_set_stat(st, k, v) ==
    IF k \in DOMAIN st.stats
    THEN [st EXCEPT !.stats[k] = apply_limits(@ + v)] ELSE st

RECURSIVE mono_apply(_, _)
mono_apply(st, effects) ==
    IF effects = <<>> THEN st
    ELSE mono_apply(mono_set_stat(st, Head(effects).k, Head(effects).v),
                    Tail(effects))

mono_check_game_over(st) ==
    LET cause == game_over_cause(st.stats)
    IN IF cause # NoCause /\ ~st.game_over
       THEN [st EXCEPT !.game_over = TRUE, !.log = @ + 1,
                       !.last_event = Owned(evt_death(cause))]
       ELSE st

mono_blocked(st, option) ==
    \E i \in DOMAIN option.effect :
        /\ option.effect[i].v < 0
        /\ Get(st.stats, option.effect[i].k, 0) + option.effect[i].v < 0

mono_annotate(st, event) ==
    LET annotated ==
            [i \in DOMAIN event.options |->
                [event.options[i] EXCEPT !.blocked =
                    IF mono_blocked(st, event.options[i]) THEN "yes" ELSE "no"]]
        options_blocked ==
            Cardinality({i \in DOMAIN annotated : annotated[i].blocked = "yes"})
    IN [event EXCEPT !.options =
            IF options_blocked = Len(event.options)
            THEN Append(annotated, collapse_option)
            ELSE annotated]

mono_get_view_data(st, events) ==
    IF st.last_event.kind = "none" \/ Deref(st.last_event, events).id = 99999
    THEN Out(st, events, Status("view"))
    ELSE LET annotated == mono_annotate(st, Deref(st.last_event, events))
         IN IF st.last_event.kind = "catalog"
            THEN Out(st, [events EXCEPT ![st.last_event.idx] = annotated],
                     Status("view"))
            ELSE Out([st EXCEPT !.last_event.ev = annotated], events,
                     Status("view"))

RECURSIVE mono_passive(_, _)
mono_passive(st, active) ==
    IF active = <<>> THEN st
    ELSE mono_passive(
             IF HasPolicy(Head(active))
             THEN mono_apply(st, FindPolicy(Head(active)).passive_effect)
             ELSE st,
             Tail(active))

mono_after_director(st, o) ==
    IF o.status = "raise"
    THEN TurnOut([st EXCEPT !.stats = o.stats], o.events, Status("raise"),
                 Raised)
    ELSE LET s1 == [st EXCEPT !.stats = o.stats, !.last_event = o.event,
                              !.log = @ + 1]
             s2 == mono_check_game_over(s1)
         IN TurnOut(s2, o.events,
                    IF s2.game_over THEN Status("game_over") ELSE Status("ok"),
                    o.event)

mono_process_turn(st, events, llm_instance, generator) ==
    IF st.game_over THEN {TurnOut(st, events, Status("game_over"), None)}
    ELSE LET s1 == [st EXCEPT !.stats_history = AppendBounded(@, st.stats, 5),
                              !.turn = @ + 1]
             s2 == mono_passive(s1, s1.active_policies)
             s3 == update_cooldowns(s2)
             s4 == mono_update_tags(s3)
         IN { mono_after_director(s4, o) :
                o \in choose_event(llm_instance, generator, s4.game_over,
                                   s4.stats, events) }

\* only the tags the player did not have yet are reported in the memory
RECURSIVE mono_new_tags(_, _)
mono_new_tags(have, tags) ==
    IF tags = <<>> THEN <<>>
    ELSE IF Head(tags) \in have THEN mono_new_tags(have, Tail(tags))
    ELSE <<Head(tags)>> \o mono_new_tags(have \cup {Head(tags)}, Tail(tags))

mono_apply_choice(st, ev, opt) ==
    LET s1 == mono_apply(st, opt.effect)
        tags_new == mono_new_tags(Range(st.event_tags), opt.effect_tags)
        s2 == [s1 EXCEPT
                 !.event_tags = @ \o tags_new,
                 !.decision_memory =
                     AppendBounded(@, decision_text(st, ev, opt, tags_new), 12),
                 !.theme_history = AppendBounded(@, ev.theme, 8),
                 !.log = @ + 1]
    IN mono_check_game_over(mono_update_tags(s2))

mono_resolve_collapse(st) ==
    mono_check_game_over(
        [st EXCEPT !.stats["stability"] = apply_limits(@ - 15),
                   !.stats["popularity"] = apply_limits(@ - 10),
                   !.log = @ + 1,
                   !.last_event = None])

mono_resolve_event(st, events, event_id, option_id) ==
    IF event_id = 99999 \/ option_id = "RESET"
    THEN Ret(mono_init, Status("reset"))
    ELSE IF option_id = "COLLAPSE"
    THEN Ret(mono_resolve_collapse(st), Ok(""))
    ELSE LET ev == Lookup(st, events, event_id)
         IN IF ev # NoEvent /\ HasOption(ev, option_id)
            THEN LET opt == FindOption(ev, option_id)
                 IN IF mono_blocked(st, opt)
                    THEN Ret(st, Error("Insufficient resources"))
                    ELSE Ret([mono_apply_choice(st, ev, opt)
                                 EXCEPT !.last_event = None], Ok(""))
            ELSE Ret([st EXCEPT !.last_event = None], Ok(""))

mono_toggle_policy(st, pid) ==
    IF st.game_over THEN Ret(st, Error("Game Over"))
    ELSE IF ~HasPolicy(pid) THEN Ret(st, Error("Invalid Law"))
    ELSE LET pol == FindPolicy(pid)
             cost_base == toggle_cost(st, pol)
             charge(s) == mono_update_tags(
                 [s EXCEPT !.stats["stability"] = @ - cost_base,
                           !.log = @ + 1])
         IN IF st.stats["stability"] < cost_base
            THEN Ret(st, Error("Insufficient Stability"))
            ELSE IF pid \in Range(st.active_policies)
            THEN Ret(charge(revoke(st, pol)), Ok("Revoked"))
            ELSE IF ~CanPay(st, pol.activation_cost)
            THEN Ret(st, Error("Lacks"))
            ELSE Ret(charge(
                     [mono_apply(st, pol.activation_cost) EXCEPT
                        !.active_policies = Append(@, pid),
                        !.blocked_policies = (pid :> LockTurns) @@ @]),
                     Ok("Enacted"))

(***************************************************************************)
(* RuleEngine (src/rules.py).  The filter reads the keys of its own        *)
(* revision: stats tesouro/estabilidade, ultimos_temas, tags_estado,       *)
(* tags_reputacao, and tema, gatilho_semantico, peso_drama of an event.    *)
(***************************************************************************)
\* ultimos[-2:]
LastTwo(ultimos) ==
    {ultimos[i] : i \in {j \in DOMAIN ultimos : j > Len(ultimos) - 2}}

\* rule 1 reading the treasury alone
regra_sobrevivencia_tesouro(ev, s) ==
    s.tesouro < 15 /\ ev.tema = "hubris"

\* rule 1: a kingdom in collapse gets no hubris event
regra_sobrevivencia(ev, s) ==
    (s.tesouro < 15 \/ s.estabilidade < 15) /\ ev.tema = "hubris"

\* rule 2: resources
regra_recursos(ev, s) ==
    \/ ev.tema = "hubris" /\ s.tesouro < 60
    \/ ev.tema = "desespero" /\ s.tesouro > 50

\* rule 3: anti-repetition over the last two themes
regra_repeticao(ev, ultimos) ==
    /\ ultimos # <<>>
    /\ ev.tema \notin {"game_over", "gestao"}
    /\ ev.tema \in LastTwo(ultimos)

\* rule 4 without the drama threshold
regra_gatilhos_any_drama(ev, gamestate) ==
    /\ ev.gatilho_semantico # <<>>
    /\ Range(ev.gatilho_semantico)
          \cap Range(gamestate.tags_estado \o gamestate.tags_reputacao) = {}

\* rule 4: semantic triggers
regra_gatilhos(ev, gamestate) ==
    /\ ev.gatilho_semantico # <<>>
    /\ Range(ev.gatilho_semantico)
          \cap Range(gamestate.tags_estado \o gamestate.tags_reputacao) = {}
    /\ ev.peso_drama >= 80

viavel(ev, gamestate) ==
    /\ ~regra_sobrevivencia(ev, gamestate.stats)
    /\ ~regra_recursos(ev, gamestate.stats)
    /\ ~regra_repeticao(ev, gamestate.ultimos_temas)
    /\ ~regra_gatilhos(ev, gamestate)

filtrar_viaveis(lista_eventos, gamestate) ==
    SelectSeq(lista_eventos, LAMBDA ev : viavel(ev, gamestate))

\* the inputs the filter is tried on
MaxRuleEvents == 2
RuleTesouro == {10, 14, 15, 50, 55, 60}
RuleEstabilidade == {14, 15, 50}
RuleEvent(id, tema, peso, gatilho) ==
    [id |-> id, tema |-> tema, peso_drama |-> peso, gatilho_semantico |-> gatilho]
RuleEvents ==
    { RuleEvent(1, "hubris", 50, <<>>),
      RuleEvent(2, "hubris", 90, <<"tirano">>),
      RuleEvent(3, "desespero", 50, <<>>),
      RuleEvent(4, "gestao", 90, <<"tirano">>),
      RuleEvent(5, "gestao", 50, <<"tirano">>),
      RuleEvent(6, "guerra", 80, <<"tirano", "falido">>) }
RuleEventLists ==
    UNION { [1..n -> RuleEvents] : n \in 0..MaxRuleEvents }
RuleHistories ==
    { <<>>, <<"hubris">>, <<"guerra", "gestao">>,
      <<"desespero", "hubris", "guerra">> }
RuleTags == { <<>>, <<"tirano">> }

RuleInputs ==
    [ eventos : RuleEventLists,
      gamestate : [ stats : [tesouro : RuleTesouro,
                             estabilidade : RuleEstabilidade],
                    ultimos_temas : RuleHistories,
                    tags_estado : {<<>>, <<"falido">>},
                    tags_reputacao : RuleTags ] ]

(***************************************************************************)
(* The session as the request handlers of main.py drive it.                *)
(***************************************************************************)
\* a session just created by get_game: GameEngine(DB)
NewGame(eng) ==
    IF eng = "package" THEN calculate_state_tags(reset("package")) ELSE mono_init

\* the second session, and the same session served alone from a DB of its own
NoOther(eng, events) ==
    [b |-> NewGame(eng), solo |-> NewGame(eng), solo_events |-> events,
     op |-> "init"]

NoArb ==
    [caller |-> "none", llm |-> "None", candidatos |-> <<>>,
     reply |-> [kind |-> "raise", text |-> <<>>], done |-> FALSE,
     out |-> [ret |-> 0, raised |-> FALSE, calls |-> 0]]

NoSelEvent == [id |-> 0, tema |-> "none", peso_drama |-> 0, gatilho_semantico |-> <<>>]
SelOut(kind, ev, temas) == [kind |-> kind, ev |-> ev, ultimos_temas |-> temas]
NoSel ==
    [caller |-> "none", llm |-> "None",
     reply |-> [kind |-> "raise", text |-> <<>>], eventos |-> <<>>,
     gamestate |-> [stats |-> [tesouro |-> 50, militar |-> 50,
                               popularidade |-> 50, estabilidade |-> 50],
                    ultimos_temas |-> <<>>, tags_estado |-> <<>>,
                    tags_reputacao |-> <<>>],
     done |-> FALSE, out |-> SelOut("none", NoSelEvent, <<>>)]

\* what json.load may hand back: a dict with the given keys, a list of n
\* entries, or null
JDict(keys) == [t |-> "dict", keys |-> keys, n |-> 0]
JList(n) == [t |-> "list", keys |-> {}, n |-> n]
JNull == [t |-> "null", keys |-> {}, n |-> 0]
NoDb == [config |-> JNull, themes |-> JNull, policies |-> JNull, events |-> JNull]
NoLoad ==
    [files |-> [config |-> "missing", policies |-> "missing", events |-> "missing"],
     done |-> FALSE, out |-> [raised |-> FALSE, db |-> NoDb]]

\* what generate_event returns when it returns None
NoGenerated ==
    [kind |-> "none", fields |-> {}, theme |-> "", drama_weight |-> 0,
     options |-> <<>>]
NoGen ==
    [lexicon |-> <<>>, frameworks |-> {},
     game_state |-> [stats |-> [treasury |-> 50], last_themes |-> <<>>],
     done |-> FALSE, out |-> NoGenerated]

NoRuleInput ==
    [eventos |-> <<>>,
     gamestate |-> [stats |-> [tesouro |-> 50, estabilidade |-> 50],
                    ultimos_temas |-> <<>>, tags_estado |-> <<>>,
                    tags_reputacao |-> <<>>]]
NoRuleOutput == [done |-> FALSE, viaveis |-> <<>>]

Init ==
    /\ engine \in {"package", "monolith"}
    /\ state = IF engine = "package"
               THEN calculate_state_tags(reset("package")) ELSE mono_init
    /\ all_events \in {db_events, <<>>}
    /\ op = "init"
    /\ director_ret = None
    /\ result = Status("init")
    /\ rule_in = NoRuleInput
    /\ rule_out = NoRuleOutput
    /\ other = NoOther(engine, all_events)
    /\ arb = NoArb
    /\ sel = NoSel
    /\ load = NoLoad
    /\ gen = NoGen

\* the exploration stops extending a session whose log or turn is at its bound
LogRoom == state.log < MaxLog + (IF state.game_over THEN 1 ELSE 0)
WithinBounds == LogRoom /\ state.turn < MaxTurn

PassTurn ==
    /\ state.game_over \/ WithinBounds
    /\ \E llm_instance \in {"None", "model"}, generator \in {"None", "attached"} :
         \E o \in (IF engine = "package"
                   THEN process_turn(state, all_events, llm_instance, generator)
                   ELSE mono_process_turn(state, all_events, llm_instance,
                                          generator)) :
            /\ state' = o.state
            /\ all_events' = o.events
            /\ result' = o.result
            /\ director_ret' = o.ret
    /\ op' = "process_turn"
    /\ UNCHANGED <<engine, rule_in, rule_out, other, arb, sel, load, gen>>

\* POST /resolve_event with the given event id and option id
ResolveWith(event_id, option_id) ==
    /\ LET o == IF engine = "package"
                THEN resolve_event(state, all_events, event_id, option_id)
                ELSE mono_resolve_event(state, all_events, event_id, option_id)
       IN /\ o.result.status = "ok" => LogRoom
          /\ state' = o.state
          /\ result' = o.result
    /\ op' = "resolve_event"
    /\ director_ret' = None
    /\ UNCHANGED <<engine, all_events, rule_in, rule_out, other, arb, sel, load, gen>>

ResolveEvent ==
    \E event_id \in EventIds, option_id \in OptionIds :
        ResolveWith(event_id, option_id)

\* POST /toggle_policy with the given policy id
ToggleWith(policy_id) ==
    /\ LET o == IF engine = "package" THEN toggle_policy(state, policy_id)
                ELSE mono_toggle_policy(state, policy_id)
       IN /\ o.result.status = "ok" => LogRoom
          /\ state' = o.state
          /\ result' = o.result
    /\ op' = "toggle_policy"
    /\ director_ret' = None
    /\ UNCHANGED <<engine, all_events, rule_in, rule_out, other, arb, sel, load, gen>>

TogglePolicy == \E policy_id \in PolicyIds : ToggleWith(policy_id)

GetState ==
    /\ LET o == IF engine = "package" THEN get_view_data(state, all_events)
                ELSE mono_get_view_data(state, all_events)
       IN /\ \A i \in DOMAIN o.events : Len(o.events[i].options) <= MaxOptions
          /\ Len(Deref(o.state.last_event, o.events).options) <= MaxOptions
          /\ state' = o.state
          /\ all_events' = o.events
          /\ result' = o.result
    /\ op' = "get_view_data"
    /\ director_ret' = None
    /\ UNCHANGED <<engine, rule_in, rule_out, other, arb, sel, load, gen>>

Next == PassTurn \/ ResolveEvent \/ TogglePolicy \/ GetState

Spec == Init /\ [][Next]_vars

(***************************************************************************)
(* The rule filter applied to inputs drawn from RuleInputs.                *)
(***************************************************************************)
InitRules ==
    /\ engine = "package"
    /\ state = calculate_state_tags(reset("package"))
    /\ all_events = db_events
    /\ op = "init"
    /\ result = Status("init")
    /\ director_ret = None
    /\ rule_in \in RuleInputs
    /\ rule_out = NoRuleOutput
    /\ other = NoOther(engine, all_events)
    /\ arb = NoArb
    /\ sel = NoSel
    /\ load = NoLoad
    /\ gen = NoGen

RunFilter ==
    /\ ~rule_out.done
    /\ rule_out' = [done |-> TRUE,
                    viaveis |-> filtrar_viaveis(rule_in.eventos, rule_in.gamestate)]
    /\ UNCHANGED <<engine, state, all_events, op, result, director_ret, rule_in,
                   other, arb, sel, load, gen>>

NextRules == RunFilter

SpecRules == InitRules /\ [][NextRules]_vars

(***************************************************************************)
(* The terminal check applied to sessions whose stats are drawn from       *)
(* TerminalValues.                                                         *)
(***************************************************************************)
TerminalValues == {0, 1, 19, 20, 50}

InitTerminal ==
    /\ engine \in {"package", "monolith"}
    /\ \E stats \in [StatNames -> TerminalValues] :
          state = [reset(engine) EXCEPT
                     !.stats = [s \in DOMAIN @ |-> Get(stats, s, @[s])]]
    /\ all_events = db_events
    /\ op = "init"
    /\ result = Status("init")
    /\ director_ret = None
    /\ rule_in = NoRuleInput
    /\ rule_out = NoRuleOutput
    /\ other = NoOther(engine, all_events)
    /\ arb = NoArb
    /\ sel = NoSel
    /\ load = NoLoad
    /\ gen = NoGen

RunTerminalCheck ==
    /\ op = "init"
    /\ state' = IF engine = "package" THEN check_game_over(state)
                ELSE mono_check_game_over(state)
    /\ result' = IF state'.game_over THEN Status("game_over") ELSE Status("ok")
    /\ op' = "check_game_over"
    /\ UNCHANGED <<engine, all_events, director_ret, rule_in, rule_out, other, arb, sel, load, gen>>

NextTerminal == RunTerminalCheck

SpecTerminal == InitTerminal /\ [][NextTerminal]_vars

(***************************************************************************)
(* Two sessions of GAMES served from the one DB and the one DIRECTOR.      *)
(* Session A is `state`; session B is other.b.  other.solo is session B    *)
(* given the same requests and the same random draws but a DB of its own   *)
(* (other.solo_events), as if session A did not exist.                     *)
(***************************************************************************)
\* logged actions a session takes under SpecSessions, and options per event
MaxSessionLog == 3
MaxSessionOptions == 4

\* the engine's answer to each request, for a given session state and DB
DoTurn(st, events) ==
    IF engine = "package" THEN process_turn(st, events, "None", "None")
    ELSE mono_process_turn(st, events, "None", "None")
DoView(st, events) ==
    IF engine = "package" THEN get_view_data(st, events)
    ELSE mono_get_view_data(st, events)
DoResolve(st, events, event_id, option_id) ==
    IF engine = "package" THEN resolve_event(st, events, event_id, option_id)
    ELSE mono_resolve_event(st, events, event_id, option_id)
DoToggle(st, policy_id) ==
    IF engine = "package" THEN toggle_policy(st, policy_id)
    ELSE mono_toggle_policy(st, policy_id)

InitSessions ==
    /\ engine \in {"package", "monolith"}
    /\ state = NewGame(engine)
    /\ all_events = db_events
    /\ op = "init"
    /\ director_ret = None
    /\ result = Status("init")
    /\ rule_in = NoRuleInput
    /\ rule_out = NoRuleOutput
    /\ other = NoOther(engine, all_events)
    /\ arb = NoArb
    /\ sel = NoSel
    /\ load = NoLoad
    /\ gen = NoGen

\* how far a session is followed
SessionRoom(st) == st.log < MaxSessionLog

\* session A's requests
APassTurn ==
    /\ SessionRoom(state) /\ state.turn < MaxTurn
    /\ \E o \in DoTurn(state, all_events) :
          state' = o.state /\ all_events' = o.events
    /\ UNCHANGED <<engine, op, result, director_ret, rule_in, rule_out, other,
                   arb, sel, load, gen>>

AGetState ==
    /\ LET o == DoView(state, all_events)
       IN /\ \A i \in DOMAIN o.events :
                Len(o.events[i].options) <= MaxSessionOptions
          /\ state' = o.state /\ all_events' = o.events
    /\ UNCHANGED <<engine, op, result, director_ret, rule_in, rule_out, other,
                   arb, sel, load, gen>>

AResolveEvent ==
    /\ SessionRoom(state)
    /\ \E event_id \in EventIds, option_id \in OptionIds :
         state' = DoResolve(state, all_events, event_id, option_id).state
    /\ UNCHANGED <<engine, all_events, op, result, director_ret, rule_in,
                   rule_out, other, arb, sel, load, gen>>

ATogglePolicy ==
    /\ SessionRoom(state)
    /\ \E policy_id \in PolicyIds : state' = DoToggle(state, policy_id).state
    /\ UNCHANGED <<engine, all_events, op, result, director_ret, rule_in,
                   rule_out, other, arb, sel, load, gen>>

\* session B's requests; the Director's draw is the same in both worlds
BPassTurn ==
    /\ SessionRoom(other.b) /\ other.b.turn < MaxTurn
    /\ \E o \in DoTurn(other.b, all_events),
          o2 \in DoTurn(other.solo, other.solo_events) :
          /\ o.ret = o2.ret
          /\ all_events' = o.events
          /\ other' = [b |-> o.state, solo |-> o2.state,
                       solo_events |-> o2.events, op |-> "process_turn"]
    /\ UNCHANGED <<engine, state, op, result, director_ret, rule_in, rule_out,
                   arb, sel, load, gen>>

BGetState ==
    /\ LET o == DoView(other.b, all_events)
           o2 == DoView(other.solo, other.solo_events)
       IN /\ \A i \in DOMAIN o.events :
                Len(o.events[i].options) <= MaxSessionOptions
          /\ all_events' = o.events
          /\ other' = [b |-> o.state, solo |-> o2.state,
                       solo_events |-> o2.events, op |-> "get_view_data"]
    /\ UNCHANGED <<engine, state, op, result, director_ret, rule_in, rule_out,
                   arb, sel, load, gen>>

BResolveEvent ==
    /\ SessionRoom(other.b)
    /\ \E event_id \in EventIds, option_id \in OptionIds :
         LET o == DoResolve(other.b, all_events, event_id, option_id)
             o2 == DoResolve(other.solo, other.solo_events, event_id, option_id)
         IN other' = [other EXCEPT !.b = o.state, !.solo = o2.state,
                                   !.op = "resolve_event"]
    /\ UNCHANGED <<engine, state, all_events, op, result, director_ret, rule_in,
                   rule_out, arb, sel, load, gen>>

BTogglePolicy ==
    /\ SessionRoom(other.b)
    /\ \E policy_id \in PolicyIds :
         LET o == DoToggle(other.b, policy_id)
             o2 == DoToggle(other.solo, policy_id)
         IN other' = [other EXCEPT !.b = o.state, !.solo = o2.state,
                                   !.op = "toggle_policy"]
    /\ UNCHANGED <<engine, state, all_events, op, result, director_ret, rule_in,
                   rule_out, arb, sel, load, gen>>

NextSessions ==
    \/ APassTurn \/ AResolveEvent \/ ATogglePolicy \/ AGetState
    \/ BPassTurn \/ BGetState \/ BResolveEvent \/ BTogglePolicy

SpecSessions == InitSessions /\ [][NextSessions]_vars

(***************************************************************************)
(* The arbiter: LLMDecisionEngine (src/inference.py), and the places that  *)
(* call a model: layer 3 of DirectorInteligente (src/director.py) and the  *)
(* AI selection step of _choose_static_event.                              *)
(*                                                                         *)
(* A generated text is a sequence of tokens: the marker "Escolha:", a      *)
(* standalone number, a number glued to letters (as in "x12"), a word      *)
(* without digits, or a line break.                                        *)
(***************************************************************************)
\* tokens per text, largest number in a text, candidates per shortlist
MaxTextLen == 3
MaxPick == 3
MaxShortlist == 2

Marker == [t |-> "marker", n |-> 0]
Word == [t |-> "word", n |-> 0]
LineBreak == [t |-> "nl", n |-> 0]
Num(n) == [t |-> "num", n |-> n]
Glued(n) == [t |-> "glued", n |-> n]
Tokens ==
    {Marker, Word, LineBreak} \cup {Num(n) : n \in 0..MaxPick}
        \cup {Glued(n) : n \in 0..MaxPick}
Texts == UNION { [1..n -> Tokens] : n \in 0..MaxTextLen }

HasDigits(tok) == tok.t \in {"num", "glued"}

\* what the model does when called: it raises, it returns something that is
\* not {'choices': [{'text': ...}]}, or it returns a text
Replies ==
    {[kind |-> "raise", text |-> <<>>], [kind |-> "malformed", text |-> <<>>]}
        \cup {[kind |-> "text", text |-> t] : t \in Texts}

NoPick == 0
\* the candidates of a shortlist, told apart by their titles
Shortlists == { [i \in 1..n |-> 10 + i] : n \in 0..MaxShortlist }

\* what a selection step leaves: the candidate returned (NoPick for None),
\* whether an exception left it, and how often the model was called
ArbRet(ret, raised, calls) == [ret |-> ret, raised |-> raised, calls |-> calls]

\* re.search(r'Escolha:.*?#?(\d+)', text, re.IGNORECASE): the leftmost
\* marker that has digits after it on its line, with the first such digits
MarkerHits(text) ==
    { i \in DOMAIN text :
        /\ text[i].t = "marker"
        /\ \E j \in DOMAIN text :
              /\ j > i
              /\ HasDigits(text[j])
              /\ \A k \in (i+1)..(j-1) : text[k].t # "nl" }
FirstDigitsAfter(text, i) ==
    text[CHOOSE j \in DOMAIN text :
            /\ j > i /\ HasDigits(text[j])
            /\ \A k \in (i+1)..(j-1) : ~HasDigits(text[k])].n
Leftmost(S) == CHOOSE i \in S : \A j \in S : i <= j

\* re.findall(r'\b(\d+)\b', text)
numeros(text) == SelectSeq(text, LAMBDA tok : tok.t = "num")

\* a parser that always takes the last standalone number
extrair_decisao_last(text, candidatos) ==
    LET idx == numeros(text)[Len(numeros(text))].n - 1
    IN IF numeros(text) # <<>> /\ 0 <= idx /\ idx < Len(candidatos)
       THEN candidatos[idx + 1] ELSE NoPick

extrair_decisao(text, candidatos) ==
    LET found == MarkerHits(text) # {} \/ numeros(text) # <<>>
        number == IF MarkerHits(text) # {}
                  THEN FirstDigitsAfter(text, Leftmost(MarkerHits(text)))
                  ELSE numeros(text)[Len(numeros(text))].n
        idx == number - 1
    IN IF found /\ 0 <= idx /\ idx < Len(candidatos)
       THEN candidatos[idx + 1] ELSE NoPick

\* an arbiter whose try block does not cover the reading of the response
selecionar_evento_unguarded(llm, candidatos, reply) ==
    IF llm = "None" \/ candidatos = <<>> THEN ArbRet(NoPick, FALSE, 0)
    ELSE IF reply.kind = "raise" THEN ArbRet(NoPick, FALSE, 1)
    ELSE IF reply.kind = "malformed" THEN ArbRet(NoPick, TRUE, 1)
    ELSE ArbRet(extrair_decisao(reply.text, candidatos), FALSE, 1)

selecionar_evento(llm, candidatos, reply) ==
    IF llm = "None" \/ candidatos = <<>> THEN ArbRet(NoPick, FALSE, 0)
    ELSE IF reply.kind # "text" THEN ArbRet(NoPick, FALSE, 1)
    ELSE ArbRet(extrair_decisao(reply.text, candidatos), FALSE, 1)

\* a ranking that asks the model again when the first answer fails
ranking_llm_retrying(llm, candidatos, reply) ==
    LET digits == {i \in DOMAIN reply.text : HasDigits(reply.text[i])}
        idx == reply.text[Leftmost(digits)].n - 1
    IN IF reply.kind = "text" /\ digits # {} /\ 0 <= idx
          /\ idx < Len(candidatos)
       THEN ArbRet(candidatos[idx + 1], FALSE, 1)
       ELSE ArbRet(candidatos[1], FALSE, 2)

\* DirectorInteligente._ranking_llm: re.search(r'(\d+)', resposta), and the
\* first candidate when the model fails or names no candidate
ranking_llm(llm, candidatos, reply) ==
    LET digits == {i \in DOMAIN reply.text : HasDigits(reply.text[i])}
        idx == reply.text[Leftmost(digits)].n - 1
    IN IF reply.kind = "text" /\ digits # {} /\ 0 <= idx
          /\ idx < Len(candidatos)
       THEN ArbRet(candidatos[idx + 1], FALSE, 1)
       ELSE ArbRet(candidatos[1], FALSE, 1)

\* layer 3 of DirectorInteligente.escolher_evento; candidatos[0] of an empty
\* list raises IndexError
camada3(llm, candidatos, reply) ==
    IF llm # "None" /\ Len(candidatos) > 1
    THEN ranking_llm(llm, candidatos, reply)
    ELSE IF candidatos = <<>> THEN ArbRet(NoPick, TRUE, 0)
    ELSE ArbRet(candidatos[1], FALSE, 0)

\* step 2 of _choose_static_event: LLMDecisionEngine has no select_event,
\* the AttributeError is caught before the model is called and chosen
\* stays None
ai_selection(llm_instance, candidates, reply) ==
    IF llm_instance # "None" /\ Len(candidates) > 1
    THEN ArbRet(NoPick, FALSE, 0)
    ELSE ArbRet(NoPick, FALSE, 0)

Callers == {"selecionar_evento", "escolher_evento", "_choose_static_event"}

ArbCall(caller, llm, candidatos, reply) ==
    [caller |-> caller, llm |-> llm, candidatos |-> candidatos,
     reply |-> reply, done |-> FALSE, out |-> ArbRet(NoPick, FALSE, 0)]

InitArbiter ==
    /\ engine = "package"
    /\ state = NewGame(engine)
    /\ all_events = db_events
    /\ op = "init"
    /\ result = Status("init")
    /\ director_ret = None
    /\ rule_in = NoRuleInput
    /\ rule_out = NoRuleOutput
    /\ other = NoOther(engine, all_events)
    /\ arb \in { ArbCall(caller, llm, candidatos, reply) :
                   caller \in Callers, llm \in {"None", "model"},
                   candidatos \in Shortlists, reply \in Replies }
    /\ sel = NoSel
    /\ load = NoLoad
    /\ gen = NoGen

CallArbiter ==
    /\ ~arb.done
    /\ arb' = [arb EXCEPT
                 !.done = TRUE,
                 !.out = CASE arb.caller = "selecionar_evento" ->
                               selecionar_evento(arb.llm, arb.candidatos, arb.reply)
                           [] arb.caller = "escolher_evento" ->
                               camada3(arb.llm, arb.candidatos, arb.reply)
                           [] OTHER ->
                               ai_selection(arb.llm, arb.candidatos, arb.reply)]
    /\ UNCHANGED <<engine, state, all_events, op, result, director_ret, rule_in,
                   rule_out, other, sel, load, gen>>

NextArbiter == CallArbiter

SpecArbiter == InitArbiter /\ [][NextArbiter]_vars

(***************************************************************************)
(* Selection by the two Directors: DirectorInteligente.escolher_evento     *)
(* (src/director.py) and EnhancedIntelligentDirector._choose_static_event  *)
(* (src/director_integration.py), each on catalogs and game states of its  *)
(* own.                                                                    *)
(***************************************************************************)
MaxCatalog == 4

LastThree(ultimos) ==
    {ultimos[i] : i \in {j \in DOMAIN ultimos : j > Len(ultimos) - 3}}

StatValues(s) == {<<k, s[k]>> : k \in DOMAIN s}

\* _gerar_tags_estado
gerar_tags_estado(stats) ==
    (IF stats.tesouro > 75 THEN {"midas", "rico"}
     ELSE IF stats.tesouro < 25 THEN {"falido", "pobre"} ELSE {})
    \cup (IF stats.militar > 75 THEN {"espartano"}
          ELSE IF stats.militar < 25 THEN {"vulneravel"} ELSE {})
    \cup (IF stats.popularidade < 25 THEN {"impopular", "opressor"}
          ELSE IF stats.popularidade > 75 THEN {"amado"} ELSE {})
    \cup (IF stats.estabilidade < 25 THEN {"instavel"} ELSE {})

\* the five hard rules of _filtrar_eventos_viaveis
descartado(ev, gamestate) ==
    LET s == gamestate.stats
    IN \/ ev.tema = "hubris" /\ s.tesouro < 60
       \/ ev.tema = "desespero" /\ s.tesouro > 60
       \/ ev.tema = "guerra" /\ 40 <= s.militar /\ s.militar <= 70
       \/ gamestate.ultimos_temas # <<>>
            /\ ev.tema \in LastThree(gamestate.ultimos_temas)
       \/ /\ ev.gatilho_semantico # <<>>
          /\ Range(ev.gatilho_semantico) \cap gerar_tags_estado(s) = {}
          /\ \A kv \in StatValues(s) : ~(kv[2] < 25 \/ kv[2] > 75)

filtrar_eventos_viaveis(todos_eventos, gamestate) ==
    SelectSeq(todos_eventos, LAMBDA ev : ~descartado(ev, gamestate))

\* _calcular_relevancia, in quarter points (peso_drama / 100 * 25 is
\* peso_drama quarter points); the game state carries no 'momentum' key,
\* so dimension 4 adds nothing
calcular_relevancia(evento, gamestate) ==
    LET s == gamestate.stats
        tags_ev == Range(evento.gatilho_semantico)
        extremidade ==
            Cardinality({kv \in StatValues(s) : kv[2] < 20 \/ kv[2] > 80})
    IN 60 * Cardinality(Range(gamestate.tags_reputacao) \cap tags_ev)
       + 40 * Cardinality(gerar_tags_estado(s) \cap tags_ev)
       + evento.peso_drama
       + (IF evento.peso_drama > 70 THEN 16 * extremidade ELSE 0)

\* a sort that puts the later of two equal scores first
retrieve_top_candidatos_latest_first(eventos, gamestate, n) ==
    LET score(i) == calcular_relevancia(eventos[i], gamestate)
        rank(i) ==
            1 + Cardinality({j \in DOMAIN eventos :
                               \/ score(j) > score(i)
                               \/ score(j) = score(i) /\ j > i})
        m == IF Len(eventos) < n THEN Len(eventos) ELSE n
    IN [k \in 1..m |-> eventos[CHOOSE i \in DOMAIN eventos : rank(i) = k]]

\* _retrieve_top_candidatos: a stable sort by descending score, cut at n
retrieve_top_candidatos(eventos, gamestate, n) ==
    LET score(i) == calcular_relevancia(eventos[i], gamestate)
        rank(i) ==
            1 + Cardinality({j \in DOMAIN eventos :
                               \/ score(j) > score(i)
                               \/ score(j) = score(i) /\ j < i})
        m == IF Len(eventos) < n THEN Len(eventos) ELSE n
    IN [k \in 1..m |-> eventos[CHOOSE i \in DOMAIN eventos : rank(i) = k]]

\* random.sample(population, k): k distinct positions in any order
sample(population, k) ==
    { [i \in 1..k |-> population[f[i]]] :
        f \in {g \in [1..k -> DOMAIN population] :
                 \A a, b \in 1..k : a # b => g[a] # g[b]} }

\* _atualizar_historico
atualizar_historico(ultimos_temas, tema) ==
    LET temas == Append(ultimos_temas, tema)
    IN IF Len(temas) > 8 THEN SubSeq(temas, Len(temas) - 7, Len(temas))
       ELSE temas

\* DirectorInteligente.escolher_evento: what it may return
escolher_evento(llm, todos_eventos, gamestate, reply) ==
    LET filtrados == filtrar_eventos_viaveis(todos_eventos, gamestate)
        viaveis ==
            IF filtrados = <<>>
            THEN sample(todos_eventos,
                        IF Len(todos_eventos) < 5 THEN Len(todos_eventos) ELSE 5)
            ELSE {filtrados}
    IN { LET candidatos == retrieve_top_candidatos(v, gamestate, 5)
             escolhido == camada3(llm, candidatos, reply)
         IN IF escolhido.raised
            THEN SelOut("raise", NoSelEvent, gamestate.ultimos_temas)
            ELSE SelOut("event", escolhido.ret,
                        atualizar_historico(gamestate.ultimos_temas,
                                            escolhido.ret.tema))
         : v \in viaveis }

\* EnhancedIntelligentDirector._choose_static_event on the same inputs
choose_static_on(llm_instance, events, gamestate) ==
    { IF r.kind = "raise"
      THEN SelOut("raise", NoSelEvent, gamestate.ultimos_temas)
      ELSE SelOut("event", events[r.idx], gamestate.ultimos_temas)
      : r \in choose_static_event(llm_instance, events) }

\* the catalogs and game states the Directors are tried on
SelEvents ==
    { RuleEvent(1, "gestao", 10, <<"falido", "pobre">>),
      RuleEvent(2, "hubris", 90, <<>>),
      RuleEvent(3, "guerra", 60, <<>>),
      RuleEvent(4, "desespero", 50, <<>>),
      RuleEvent(5, "gestao", 85, <<"tirano">>) }
SelCatalogs == UNION { [1..n -> SelEvents] : n \in 0..MaxCatalog }
SelGamestates ==
    [ stats : [tesouro : {20, 50, 60, 70}, militar : {50, 80},
               popularidade : {50}, estabilidade : {50}],
      ultimos_temas : {<<>>, <<"gestao", "hubris">>},
      tags_estado : {<<>>},
      tags_reputacao : {<<>>} ]
\* no model, a model that raises, a model that answers "2"
SelModels ==
    { <<"None", [kind |-> "raise", text |-> <<>>]>>,
      <<"model", [kind |-> "raise", text |-> <<>>]>>,
      <<"model", [kind |-> "text", text |-> <<Num(2)>>]>> }

InitSelection ==
    /\ engine = "package"
    /\ state = NewGame(engine)
    /\ all_events = db_events
    /\ op = "init"
    /\ result = Status("init")
    /\ director_ret = None
    /\ rule_in = NoRuleInput
    /\ rule_out = NoRuleOutput
    /\ other = NoOther(engine, all_events)
    /\ arb = NoArb
    /\ sel \in { [NoSel EXCEPT !.caller = c, !.llm = m[1], !.reply = m[2],
                               !.eventos = evs, !.gamestate = g] :
                   c \in {"escolher_evento", "_choose_static_event"},
                   m \in SelModels, evs \in SelCatalogs, g \in SelGamestates }
    /\ load = NoLoad
    /\ gen = NoGen

RunSelection ==
    /\ ~sel.done
    /\ \E o \in IF sel.caller = "escolher_evento"
                THEN escolher_evento(sel.llm, sel.eventos, sel.gamestate,
                                     sel.reply)
                ELSE choose_static_on(sel.llm, sel.eventos, sel.gamestate) :
          sel' = [sel EXCEPT !.done = TRUE, !.out = o]
    /\ UNCHANGED <<engine, state, all_events, op, result, director_ret, rule_in,
                   rule_out, other, arb, load, gen>>

NextSelection == RunSelection

SpecSelection == InitSelection /\ [][NextSelection]_vars

(***************************************************************************)
(* A session whose active policies have no passive effect, advanced turn   *)
(* after turn with no model attached.                                      *)
(***************************************************************************)
MaxNeutralTurns == 20

\* 'absolutism' has no catalog entry, so apply_passive_effects skips it
NeutralGame(eng) == [NewGame(eng) EXCEPT !.active_policies = <<"absolutism">>]

InitNeutral ==
    /\ engine \in {"package", "monolith"}
    /\ state = NeutralGame(engine)
    /\ all_events = db_events
    /\ op = "init"
    /\ result = Status("init")
    /\ director_ret = None
    /\ rule_in = NoRuleInput
    /\ rule_out = NoRuleOutput
    /\ other = NoOther(engine, all_events)
    /\ arb = NoArb
    /\ sel = NoSel
    /\ load = NoLoad
    /\ gen = NoGen

\* POST /pass_turn with LLM = None
NeutralTurn ==
    /\ state.turn <= MaxNeutralTurns
    /\ \E generator \in {"None", "attached"} :
         \E o \in (IF engine = "package"
                   THEN process_turn(state, all_events, "None", generator)
                   ELSE mono_process_turn(state, all_events, "None", generator)) :
            /\ state' = o.state
            /\ all_events' = o.events
            /\ result' = o.result
            /\ director_ret' = o.ret
    /\ op' = "process_turn"
    /\ UNCHANGED <<engine, rule_in, rule_out, other, arb, sel, load, gen>>

NextNeutral == NeutralTurn

SpecNeutral == InitNeutral /\ [][NextNeutral]_vars

(***************************************************************************)
(* A session taken up late in a game, its rolling histories already long:  *)
(* the appends of process_turn and resolve_event at and near the bounds.   *)
(***************************************************************************)
MaxHistSteps == 2

OldThemes == <<"t1", "t2", "t3", "t4", "t5", "t6", "t7", "t8">>
OldDecision(i) == [year |-> 0 - i, title |-> 0, text |-> "A", tags |-> <<>>]
OldStats(eng, i) == [s \in DOMAIN NewGame(eng).stats |-> i]

LateGame(eng, nt, nd, ns) ==
    [NewGame(eng) EXCEPT
       !.theme_history = [i \in 1..nt |-> OldThemes[i]],
       !.decision_memory = [i \in 1..nd |-> OldDecision(i)],
       !.stats_history = [i \in 1..ns |-> OldStats(eng, i)]]

InitHistories ==
    /\ engine \in {"package", "monolith"}
    /\ \E nt \in 0..8, nd \in 0..12, ns \in 0..5 :
          state = LateGame(engine, nt, nd, ns)
    /\ all_events = db_events
    /\ op = "init"
    /\ result = Status("init")
    /\ director_ret = None
    /\ rule_in = NoRuleInput
    /\ rule_out = NoRuleOutput
    /\ other = NoOther(engine, all_events)
    /\ arb = NoArb
    /\ sel = NoSel
    /\ load = NoLoad
    /\ gen = NoGen

HistRoom == state.log <= MaxHistSteps

HistTurn ==
    /\ HistRoom
    /\ \E o \in DoTurn(state, all_events) :
          /\ state' = o.state
          /\ all_events' = o.events
          /\ result' = o.result
          /\ director_ret' = o.ret
    /\ op' = "process_turn"
    /\ UNCHANGED <<engine, rule_in, rule_out, other, arb, sel, load, gen>>

HistResolve ==
    /\ HistRoom
    /\ \E event_id \in {1, 2, 99999}, option_id \in {"A", "B", "COLLAPSE"} :
          LET o == DoResolve(state, all_events, event_id, option_id)
          IN /\ state' = o.state
             /\ result' = o.result
    /\ op' = "resolve_event"
    /\ director_ret' = None
    /\ UNCHANGED <<engine, all_events, rule_in, rule_out, other, arb, sel, load, gen>>

NextHistories == HistTurn \/ HistResolve

SpecHistories == InitHistories /\ [][NextHistories]_vars

(***************************************************************************)
(* A session of turns and toggles, long enough for a lock to run out.      *)
(***************************************************************************)
MaxCooldownTurns == 9

InitCooldown ==
    /\ engine \in {"package", "monolith"}
    /\ state = NewGame(engine)
    /\ all_events = db_events
    /\ op = "init"
    /\ result = Status("init")
    /\ director_ret = None
    /\ rule_in = NoRuleInput
    /\ rule_out = NoRuleOutput
    /\ other = NoOther(engine, all_events)
    /\ arb = NoArb
    /\ sel = NoSel
    /\ load = NoLoad
    /\ gen = NoGen

CooldownTurn ==
    /\ state.turn <= MaxCooldownTurns
    /\ \E o \in DoTurn(state, all_events) :
          /\ state' = o.state
          /\ all_events' = o.events
          /\ result' = o.result
          /\ director_ret' = o.ret
    /\ op' = "process_turn"
    /\ UNCHANGED <<engine, rule_in, rule_out, other, arb, sel, load, gen>>

CooldownToggle ==
    /\ state.turn <= MaxCooldownTurns
    /\ \E policy_id \in PolicyIds :
          LET o == DoToggle(state, policy_id)
          IN /\ state' = o.state
             /\ result' = o.result
    /\ op' = "toggle_policy"
    /\ director_ret' = None
    /\ UNCHANGED <<engine, all_events, rule_in, rule_out, other, arb, sel, load,
                   gen>>

NextCooldown == CooldownTurn \/ CooldownToggle

SpecCooldown == InitCooldown /\ [][NextCooldown]_vars

(***************************************************************************)
(* load_data (src/database.py) on the files of the data folder.            *)
(***************************************************************************)
\* a file is missing (FileNotFoundError), unreadable (any other OSError),
\* malformed (json.load raises) or holds a JSON value
Unreadable == {"missing", "unreadable", "malformed"}
FileContents ==
    {JDict({}), JDict({"rules", "narrative_themes"}), JList(0), JList(2), JNull}
FileStates ==
    {[state |-> s, value |-> JNull] : s \in Unreadable}
        \cup {[state |-> "json", value |-> v] : v \in FileContents}

\* the inner function read(filename)
read(filename, file) ==
    IF file.state = "missing"
    THEN IF filename = "config.json" THEN JDict({}) ELSE JList(0)
    ELSE IF file.state \in {"unreadable", "malformed"} THEN JList(0)
    ELSE file.value

\* value.get(key, {}): only a dict has the method
dict_get(value, key) ==
    IF key \in value.keys THEN JDict({key}) ELSE JDict({})

load_data(files) ==
    LET config == read("config.json", files.config)
    IN IF config.t # "dict" THEN [raised |-> TRUE, db |-> NoDb]
       ELSE [raised |-> FALSE,
             db |-> [config |-> dict_get(config, "rules"),
                     themes |-> dict_get(config, "narrative_themes"),
                     policies |-> read("policies.json", files.policies),
                     events |-> read("events.json", files.events)]]

InitLoad ==
    /\ engine = "package"
    /\ state = NewGame(engine)
    /\ all_events = db_events
    /\ op = "init"
    /\ result = Status("init")
    /\ director_ret = None
    /\ rule_in = NoRuleInput
    /\ rule_out = NoRuleOutput
    /\ other = NoOther(engine, all_events)
    /\ arb = NoArb
    /\ sel = NoSel
    /\ load \in {[NoLoad EXCEPT !.files = f] :
                   f \in [config : FileStates, policies : FileStates,
                          events : FileStates]}
    /\ gen = NoGen

LoadData ==
    /\ ~load.done
    /\ load' = [load EXCEPT !.done = TRUE, !.out = load_data(load.files)]
    /\ UNCHANGED <<engine, state, all_events, op, result, director_ret, rule_in,
                   rule_out, other, arb, sel, gen>>

NextLoad == LoadData

SpecLoad == InitLoad /\ [][NextLoad]_vars

(***************************************************************************)
(* DynamicGenerator.generate_event (src/dynamic_generator.py) with no      *)
(* language model attached.  Every random draw is a choice among the       *)
(* values the draw can give, so an operator stands for the set of its      *)
(* possible results.                                                       *)
(***************************************************************************)
\* a stat -> number map of the lexicon: {} is the empty map
NoStats == [s \in {} |-> 0]
TreasuryOnly(v) == [s \in {"treasury"} |-> v]
Archetype(id, themes, mechanics, min_stats, max_stats) ==
    [archetype_id |-> id, narrative_themes |-> themes,
     core_mechanics |-> mechanics, drama_range |-> <<40, 61>>,
     state_requirements |-> [min_stats |-> min_stats, max_stats |-> max_stats]]
Framework(id) ==
    [archetype_id |-> id, narrative_hooks |-> <<"hook">>,
     characters |-> <<"advisor", "commoner">>]

GenArchetypes ==
    <<Archetype("ARCH_1", <<"war">>,
                [s \in {"treasury", "stability"} |->
                    IF s = "treasury" THEN -10 ELSE 5],
                TreasuryOnly(30), NoStats),
      Archetype("ARCH_2", <<"intrigue">>, NoStats, NoStats, NoStats),
      Archetype("ARCH_3", <<"famine">>, TreasuryOnly(0), NoStats,
                TreasuryOnly(60))>>
GenLexicons ==
    {SelectSeq(GenArchetypes, LAMBDA a : a.archetype_id \in ids) :
        ids \in SUBSET {"ARCH_1", "ARCH_2", "ARCH_3"}}
GenFrameworks ==
    {{Framework(id) : id \in ids} : ids \in SUBSET {"ARCH_1", "ARCH_2", "ARCH_3"}}
GenGamestates ==
    {[stats |-> [treasury |-> t], last_themes |-> h] :
        t \in {20, 50, 80},
        h \in {<<>>, <<"war">>, <<"war", "famine", "intrigue">>}}

\* an exception leaving _generate_alternative_mechanics or _generate_fallback
GenRaised == [raised |-> TRUE, effect |-> NoStats, event |-> NoGenerated]
Effect(e) == [GenRaised EXCEPT !.raised = FALSE, !.effect = e]
Generated(ev) == [GenRaised EXCEPT !.raised = FALSE, !.event = ev]

archetype_is_viable(archetype, game_state) ==
    LET reqs == archetype.state_requirements
    IN /\ \A stat \in DOMAIN reqs.min_stats :
            Get(game_state.stats, stat, 0) >= reqs.min_stats[stat]
       /\ \A stat \in DOMAIN reqs.max_stats :
            Get(game_state.stats, stat, 0) <= reqs.max_stats[stat]
       /\ \A theme \in Range(archetype.narrative_themes) :
            theme \notin LastTwo(game_state.last_themes)

\* every viable archetype has a weight of at least 1, so the weighted draw
\* can give any of them; {} stands for the None of an empty viable list
select_archetype(lexicon, game_state) ==
    {a \in Range(lexicon) : archetype_is_viable(a, game_state)}

\* the frameworks indexed under the archetype: the draw gives any of them
select_framework(frameworks, archetype_id) ==
    {fw \in frameworks : fw.archetype_id = archetype_id}

\* random.uniform(0.8, 1.2) in fifths: its two ends and its middle
Factors == {4, 5, 6}

generate_alternative_mechanics(base_mechanics) ==
    LET stats == DOMAIN base_mechanics
        drafts ==
            {[stat \in stats |->
                IF base_mechanics[stat] # 0
                THEN (-base_mechanics[stat] * u[stat]) \div 5
                ELSE z[stat]] :
             u \in [stats -> Factors], z \in [stats -> {-5, 5}]}
        finish(alternative) ==
            IF \A stat \in stats : alternative[stat] <= 0
            THEN IF stats = {}
                 THEN {GenRaised}
                 ELSE {Effect([alternative EXCEPT ![stat] = Abs(alternative[stat])]) :
                         stat \in stats}
            ELSE {Effect(alternative)}
    IN UNION {finish(d) : d \in drafts}

generate_fallback(archetype, framework) ==
    LET mechanics == archetype.core_mechanics
        option(id, effect) ==
            [id |-> id,
             fields |-> {"id", "text", "effect", "effect_tags", "response"},
             effect |-> effect]
        event(b) ==
            [kind |-> "event",
             fields |-> {"id", "title", "text", "theme", "semantic_trigger",
                         "drama_weight", "_generated", "_fallback",
                         "_archetype_id", "options"},
             theme |-> archetype.narrative_themes[1],
             drama_weight |->
                 (archetype.drama_range[1] + archetype.drama_range[2]) \div 2,
             options |-> <<option("A", mechanics), option("B", b)>>]
    IN IF \/ framework.narrative_hooks = <<>>
          \/ framework.characters = <<>>
          \/ archetype.narrative_themes = <<>>
       THEN {GenRaised}
       ELSE {IF b.raised THEN GenRaised ELSE Generated(event(b.effect)) :
                b \in generate_alternative_mechanics(mechanics)}

\* _generate_with_llm: self.llm is None, so the answer is None
generate_with_llm == NoGenerated

generate_event(lexicon, frameworks, game_state) ==
    LET archetypes == select_archetype(lexicon, game_state)
        with(archetype) ==
            LET fws == select_framework(frameworks, archetype.archetype_id)
            IN IF fws = {} THEN {NoGenerated}
               ELSE IF generate_with_llm # NoGenerated THEN {generate_with_llm}
               ELSE {IF r.raised THEN NoGenerated ELSE r.event :
                        r \in UNION {generate_fallback(archetype, fw) :
                                        fw \in fws}}
    IN IF archetypes = {} THEN {NoGenerated}
       ELSE UNION {with(a) : a \in archetypes}

InitGen ==
    /\ engine = "package"
    /\ state = NewGame(engine)
    /\ all_events = db_events
    /\ op = "init"
    /\ result = Status("init")
    /\ director_ret = None
    /\ rule_in = NoRuleInput
    /\ rule_out = NoRuleOutput
    /\ other = NoOther(engine, all_events)
    /\ arb = NoArb
    /\ sel = NoSel
    /\ load = NoLoad
    /\ gen \in {[NoGen EXCEPT !.lexicon = l, !.frameworks = f, !.game_state = g] :
                  l \in GenLexicons, f \in GenFrameworks, g \in GenGamestates}

GenerateEvent ==
    /\ ~gen.done
    /\ \E out \in generate_event(gen.lexicon, gen.frameworks, gen.game_state) :
          gen' = [gen EXCEPT !.done = TRUE, !.out = out]
    /\ UNCHANGED <<engine, state, all_events, op, result, director_ret, rule_in,
                   rule_out, other, arb, sel, load>>

NextGen == GenerateEvent

SpecGen == InitGen /\ [][NextGen]_vars

(***************************************************************************)
(* Properties of the session and of the rule filter.                       *)
(***************************************************************************)
\* the step just taken was a turn the Director was asked an event for
TurnStep == op' = "process_turn" /\ ~state.game_over

\* C1: every stat of the session is within [0, 100] in every reachable
\* state, whatever sequence of turns, resolutions and toggles led to it
C1_StatsInRange ==
    \A s \in DOMAIN state.stats : state.stats[s] >= 0 /\ state.stats[s] <= 100

\* C2: with a non-empty catalog, a turn's call of choose_event hands back
\* a concrete event (one of the catalog or a generated one), never None and
\* never an exception, whatever the model, the generator and the draw do
C2_ConcreteEvent ==
    [][ (TurnStep /\ all_events # <<>>)
          => /\ director_ret'.kind \in {"catalog", "own"}
             /\ Deref(director_ret', all_events') # NoEvent
             /\ Deref(director_ret', all_events').options # <<>> ]_vars

\* a turn of the package engine whose dynamic attempt failed (the stats
\* carry the keys _enhance_gamestate adds) and that got a catalog event
C2_Witness ==
    /\ op = "process_turn"
    /\ engine = "package"
    /\ director_ret.kind = "catalog"
    /\ "agriculture" \in DOMAIN state.stats
    /\ all_events # <<>>

\* C3: when the theme history ends with themes a, b, the event a turn's
\* choose_event hands back has neither theme, unless its theme is
\* "game_over" or "management"
C3_NoRecentTheme ==
    [][ (TurnStep /\ Len(state.theme_history) >= 2
           /\ director_ret'.kind \in {"catalog", "own"})
          => LET theme == Deref(director_ret', all_events').theme
                 n == Len(state.theme_history)
             IN \/ theme \in {"game_over", "management"}
                \/ theme \notin {state.theme_history[n - 1],
                                 state.theme_history[n]} ]_vars

\* C4: when tesouro < 15 or estabilidade < 15, no event of theme "hubris"
\* is in the list filtrar_viaveis returns (and the list holds only events
\* it was given)
C4_NoHubrisInCollapse ==
    rule_out.done =>
      LET s == rule_in.gamestate.stats
      IN /\ Range(rule_out.viaveis) \subseteq Range(rule_in.eventos)
         /\ (s.tesouro < 15 \/ s.estabilidade < 15)
               => \A i \in DOMAIN rule_out.viaveis :
                      rule_out.viaveis[i].tema # "hubris"

\* the filter has run on a rich but unstable kingdom offered a hubris event
\* that no other rule would remove
C4_Witness ==
    /\ rule_out.done
    /\ rule_in.gamestate.stats.estabilidade < 15
    /\ rule_in.gamestate.stats.tesouro >= 60
    /\ rule_in.gamestate.ultimos_temas = <<>>
    /\ \E i \in DOMAIN rule_in.eventos :
          /\ rule_in.eventos[i].tema = "hubris"
          /\ rule_in.eventos[i].gatilho_semantico = <<>>
    /\ rule_out.viaveis # <<>>

\* the tags the options chosen so far have granted
GrantedByOptions(st) ==
    UNION { Range(st.decision_memory[i].tags) : i \in DOMAIN st.decision_memory }
\* the permanent tags of the catalog policies among the given ids
PermanentTagsOf(ids) ==
    UNION { Range(db_policies[i].permanent_tags) :
              i \in {j \in DOMAIN db_policies : db_policies[j].id \in ids} }
ReputationIsUnion(st) ==
    get_reputation_tags(st) =
        GrantedByOptions(st) \cup PermanentTagsOf(Range(st.active_policies))

\* C5: the reputation tags are always the union of the tags granted by the
\* options chosen so far and the permanent tags of the active policies;
\* enacting a policy adds its permanent tags, revoking it removes each of
\* them that no chosen option and no policy still active provides
C5_ReputationTags ==
    [][ /\ ReputationIsUnion(state)
        /\ ReputationIsUnion(state')
        /\ (op' = "toggle_policy" /\ result'.status = "ok") =>
             LET before == Range(state.active_policies)
                 after == Range(state'.active_policies)
             IN /\ PermanentTagsOf(after \ before)
                      \subseteq get_reputation_tags(state')
                /\ \A T \in PermanentTagsOf(before \ after) :
                      T \in get_reputation_tags(state')
                          <=> T \in GrantedByOptions(state')
                                       \cup PermanentTagsOf(after) ]_vars

\* a revocation after which the revoked law's tag is gone
C5_Witness ==
    /\ op = "toggle_policy"
    /\ result.msg = "Revoked"
    /\ "serfdom" \notin Range(state.active_policies)
    /\ "tyrant" \notin get_reputation_tags(state)

\* C6: once the game-over flag is set it stays set through turns, toggles,
\* views and resolutions; only a reset (event id 99999 or option RESET)
\* puts the session back in play
C6_GameOverSticky ==
    [][ (state.game_over /\ result'.status # "reset") => state'.game_over ]_vars

\* a resolution accepted after the end that left the flag set
C6_Witness ==
    /\ state.game_over
    /\ op = "resolve_event"
    /\ result.status = "ok"
    /\ state.last_event = None

\* the terminal conditions, in the order the cause is picked
ExpectedCause(s) ==
    CASE s["stability"] <= 0 -> "Total Anarchy"
      [] s["stability"] > 0 /\ s["popularity"] <= 0 -> "Popular Revolution"
      [] s["stability"] > 0 /\ s["popularity"] > 0 /\ s["military"] <= 0
           -> "External Conquest"
      [] OTHER -> "State bankrupt and defenseless"
Terminal(s) ==
    \/ s["stability"] <= 0
    \/ s["popularity"] <= 0
    \/ s["military"] <= 0
    \/ s["treasury"] <= 0 /\ s["military"] < 20

\* C7: the terminal check sets game over exactly when stability <= 0,
\* popularity <= 0, military <= 0, or treasury <= 0 with military < 20; the
\* terminal event it leaves pending carries the first cause in that order;
\* when none holds the flag stays clear and nothing is left pending
C7_TerminalCheck ==
    op = "check_game_over"
      => /\ state.game_over <=> Terminal(state.stats)
         /\ state.game_over =>
              /\ result.status = "game_over"
              /\ state.last_event = Owned(evt_death(ExpectedCause(state.stats)))
         /\ ~state.game_over =>
              /\ result.status = "ok"
              /\ state.last_event = None

\* the check has ended a session that is bankrupt and defenseless and has
\* no other cause
C7_Witness ==
    /\ op = "check_game_over"
    /\ state.game_over
    /\ state.stats["stability"] > 0
    /\ state.stats["popularity"] > 0
    /\ state.stats["military"] > 0
    /\ state.stats["military"] < 20
    /\ state.stats["treasury"] <= 0
    /\ state.last_event.ev.text = "State bankrupt and defenseless"

\* C8: a resolve-event or toggle-policy request answered with an error
\* leaves the session state (and the catalog) exactly as it was
C8_ErrorChangesNothing ==
    [][ (op' \in {"resolve_event", "toggle_policy"} /\ result'.status = "error")
          => state' = state /\ all_events' = all_events ]_vars

\* an enactment refused because the activation cost cannot be paid
C8_Witness ==
    /\ op = "toggle_policy"
    /\ result.status = "error"
    /\ result.msg = "Lacks"
    /\ state.stats["stability"] >= 10

\* C9: while the game is over, every request other than a reset (a turn, a
\* toggle, a resolution, COLLAPSE included) is rejected and changes nothing
C9_RejectedWhenOver ==
    [][ (state.game_over
           /\ op' \in {"process_turn", "resolve_event", "toggle_policy"}
           /\ result'.status # "reset")
          => /\ result'.status \in {"error", "game_over"}
             /\ state' = state ]_vars

\* an option the stats cannot pay
Unaffordable(st, option) ==
    \E i \in DOMAIN option.effect :
        /\ option.effect[i].v < 0
        /\ Get(st.stats, option.effect[i].k, 0) + option.effect[i].v < 0
\* what POST /resolve_event would answer in the current state
ResolveNow(event_id, option_id) ==
    IF engine = "package"
    THEN resolve_event(state, all_events, event_id, option_id)
    ELSE mono_resolve_event(state, all_events, event_id, option_id)

\* C10: a view taken with a pending non-terminal event offers at least one
\* unblocked option, and when the stats can pay none of the event's own
\* options it offers an unblocked COLLAPSE option; resolving COLLAPSE is
\* accepted in every state, for every event id but the terminal one
C10_AntiSoftlock ==
    /\ (op = "get_view_data" /\ state.last_event # None /\ Pending.id # 99999)
          => LET opts == Pending.options
             IN /\ \E i \in DOMAIN opts : opts[i].blocked = "no"
                /\ \A i \in DOMAIN opts : opts[i].blocked \in {"yes", "no"}
                /\ (\A i \in DOMAIN opts :
                        opts[i].id # "COLLAPSE" => Unaffordable(state, opts[i]))
                     => \E i \in DOMAIN opts :
                           opts[i].id = "COLLAPSE" /\ opts[i].blocked = "no"
    /\ \A event_id \in EventIds \ {99999} :
          ResolveNow(event_id, "COLLAPSE").result.status = "ok"

\* a view of an event none of whose own options can be paid
C10_Witness ==
    /\ op = "get_view_data"
    /\ state.last_event # None
    /\ Pending.id # 99999
    /\ \E i \in DOMAIN Pending.options :
          Pending.options[i].id = "COLLAPSE" /\ Pending.options[i].blocked = "no"
    /\ \A i \in DOMAIN Pending.options :
          Pending.options[i].id # "COLLAPSE" => Pending.options[i].blocked = "yes"

\* what GET /get_state shows session B of its pending event, in the shared
\* world and alone
ShownToB == Deref(other.b.last_event, all_events)
ShownToBAlone == Deref(other.solo.last_event, other.solo_events)

\* C11: nothing session A does changes what is observable in session B:
\* B's state (stats, policies, tags, histories) and the options and
\* annotations of the event B is shown are those B would have alone
C11_SessionsIsolated ==
    /\ other.b = other.solo
    /\ other.op = "get_view_data" => ShownToB = ShownToBAlone

\* the model call failed: it raised, its response had not the expected
\* structure, or its text names no candidate of the shortlist at all
ModelFailed(reply, candidatos) ==
    \/ reply.kind \in {"raise", "malformed"}
    \/ \A i \in DOMAIN reply.text :
          HasDigits(reply.text[i]) => reply.text[i].n \notin 1..Len(candidatos)

\* C12: a failure of the arbiter's model call (an exception, a malformed
\* response, an unparseable or out-of-range selection) makes the arbiter
\* return None; neither the arbiter nor the AI selection step of the
\* Director lets an exception out
C12_ArbiterFailsSoft ==
    (arb.done /\ arb.caller \in {"selecionar_evento", "_choose_static_event"})
      => /\ ~arb.out.raised
         /\ (arb.caller = "selecionar_evento"
               /\ ModelFailed(arb.reply, arb.candidatos))
              => arb.out.ret = NoPick

\* the arbiter called a model that answered with a malformed response
C12_Witness ==
    /\ arb.done
    /\ arb.caller = "selecionar_evento"
    /\ arb.reply.kind = "malformed"
    /\ arb.out.calls = 1
    /\ arb.out.ret = NoPick
    /\ ~arb.out.raised

\* positions <<i, j>>: a marker at i and the first digits after it at j,
\* on the same line
MarkedNumbers(text) ==
    { p \in (DOMAIN text) \X (DOMAIN text) :
        /\ text[p[1]].t = "marker"
        /\ p[2] > p[1]
        /\ HasDigits(text[p[2]])
        /\ \A k \in (p[1] + 1)..(p[2] - 1) :
              text[k].t # "nl" /\ ~HasDigits(text[k]) }
StandaloneNumbers(text) == {i \in DOMAIN text : text[i].t = "num"}
PickOf(k, candidatos) ==
    IF k \in 1..Len(candidatos) THEN candidatos[k] ELSE NoPick

\* C13: given a shortlist of N events the parser returns shortlist[k-1],
\* k being the number after the (first) selection marker that has one, or
\* without such a marker the last standalone number of the text; it
\* returns None when there is no number or k is outside 1..N
C13_ParserPicks ==
    (arb.done /\ arb.caller = "selecionar_evento" /\ arb.out.calls = 1
       /\ arb.reply.kind = "text")
      => LET text == arb.reply.text
             marked == MarkedNumbers(text)
             alone == StandaloneNumbers(text)
         IN IF marked # {}
            THEN \E p \in marked :
                    /\ \A q \in marked : p[1] <= q[1]
                    /\ arb.out.ret = PickOf(text[p[2]].n, arb.candidatos)
            ELSE IF alone # {}
            THEN \E i \in alone :
                    /\ \A j \in alone : j <= i
                    /\ arb.out.ret = PickOf(text[i].n, arb.candidatos)
            ELSE arb.out.ret = NoPick

\* a marker with an out-of-range number, and an in-range number elsewhere
C13_Witness ==
    /\ arb.done
    /\ arb.caller = "selecionar_evento"
    /\ arb.out.calls = 1
    /\ Len(arb.candidatos) = 2
    /\ arb.reply = [kind |-> "text", text |-> <<Num(1), Marker, Num(3)>>]
    /\ arb.out.ret = NoPick

\* C14: within one call of the Director the model is invoked at most once,
\* and only with a model attached and more than one candidate; without a
\* model it is never invoked; after a failed attempt the deterministic
\* fallback decides, with no second attempt
C14_OneModelCall ==
    (arb.done /\ arb.caller \in {"escolher_evento", "_choose_static_event"})
      => /\ arb.out.calls <= 1
         /\ arb.out.calls = 1
              => arb.llm = "model" /\ Len(arb.candidatos) > 1
         /\ arb.llm = "None" => arb.out.calls = 0
         /\ (arb.caller = "escolher_evento" /\ arb.out.calls = 1
               /\ ModelFailed(arb.reply, arb.candidatos))
              => arb.out.ret = arb.candidatos[1]

\* layer 3 called a model that raised and fell back on the first candidate
C14_Witness ==
    /\ arb.done
    /\ arb.caller = "escolher_evento"
    /\ arb.llm = "model"
    /\ arb.reply.kind = "raise"
    /\ arb.out.calls = 1
    /\ arb.out.ret = arb.candidatos[1]

\* what the rule filter of the calling Director makes of the catalog
SelViable ==
    IF sel.caller = "escolher_evento"
    THEN filtrar_eventos_viaveis(sel.eventos, sel.gamestate)
    ELSE filtrar_viaveis(sel.eventos, sel.gamestate)
\* the candidates the fallback chooses among
SelCandidates ==
    IF sel.caller = "escolher_evento"
    THEN retrieve_top_candidatos(SelViable, sel.gamestate, 5)
    ELSE SelViable
SelNoDecision == sel.llm = "None" \/ sel.reply.kind = "raise"

\* C15: when the rule filter returns an empty list and the catalog has an
\* event themed "management" ("gestao"), the Director returns an event of
\* that theme
C15_EmergencyPrefersManagement ==
    (sel.done /\ sel.out.kind = "event" /\ SelViable = <<>>
       /\ \E i \in DOMAIN sel.eventos : sel.eventos[i].tema = "gestao")
      => sel.out.ev.tema = "gestao"

\* C16: when the filter yields viable events and the arbiter gives no
\* decision, the chosen event is a candidate that no more than two
\* candidates exceed in drama weight
C16_TopThreeByDrama ==
    (sel.done /\ sel.out.kind = "event" /\ SelViable # <<>> /\ SelNoDecision)
      => /\ sel.out.ev \in Range(SelCandidates)
         /\ Cardinality({j \in DOMAIN SelCandidates :
                           SelCandidates[j].peso_drama
                             > sel.out.ev.peso_drama}) <= 2

\* C17: right after an advance-turn in which the Director selected an
\* event, the last entry of the theme history is the pending event's theme
C17_ThemeAtSelection ==
    (op = "process_turn" /\ director_ret.kind \in {"catalog", "own"})
      => /\ state.theme_history # <<>>
         /\ state.theme_history[Len(state.theme_history)] = Pending.theme

\* the session as process_turn hands it to the Director
BeforeDirector(st) ==
    LET s1 == [st EXCEPT !.stats_history = AppendBounded(@, st.stats, 5),
                         !.turn = @ + 1]
    IN IF engine = "package"
       THEN calculate_state_tags(
                update_cooldowns(apply_passive_effects(s1, s1.active_policies)))
       ELSE mono_update_tags(
                update_cooldowns(mono_passive(s1, s1.active_policies)))

\* C18: choose_event leaves the session's stat vector (names and values),
\* its state tags and its reputation tags as it found them
C18_DirectorChangesNoStats ==
    [][TurnStep =>
         /\ state'.stats = BeforeDirector(state).stats
         /\ state'.state_tags = BeforeDirector(state).state_tags
         /\ state'.event_tags = BeforeDirector(state).event_tags]_vars

\* C19: after every successful resolve-event the terminal check has been
\* re-run: stats that satisfy a terminal condition come with the game-over
\* flag set
C19_TerminalAfterResolve ==
    (op = "resolve_event" /\ result.status = "ok" /\ Terminal(state.stats))
      => state.game_over

\* C20: an advance-turn accepted while playing increases the turn counter
\* by exactly 1; an advance-turn while the game is over, a resolve-event
\* other than a reset, a toggle-policy and a view leave it unchanged
C20_TurnCounter ==
    [][/\ (op' = "process_turn" /\ ~state.game_over)
            => state'.turn = state.turn + 1
       /\ (op' = "process_turn" /\ state.game_over)
            => state'.turn = state.turn
       /\ (op' = "resolve_event" /\ result'.status # "reset")
            => state'.turn = state.turn
       /\ op' \in {"toggle_policy", "get_view_data"}
            => state'.turn = state.turn]_vars

\* an advance-turn accepted in the first year
C20_Witness ==
    /\ op = "process_turn"
    /\ result.status = "ok"
    /\ state.turn = 2

C22_LockedPolicyStays ==
    [][op' = "toggle_policy"
         => \A p \in DOMAIN state.blocked_policies :
               state.blocked_policies[p] > 0
                 => (p \in Range(state'.active_policies)
                       <=> p \in Range(state.active_policies))]_vars

\* the call names no event the session or the catalog knows, or an option
\* the event does not have
UnknownChoice(event_id, option_id) ==
    /\ event_id # 99999
    /\ option_id \notin {"RESET", "COLLAPSE"}
    /\ \/ Lookup(state, all_events, event_id) = NoEvent
       \/ ~HasOption(Lookup(state, all_events, event_id), option_id)

\* C23: resolve-event with an event id matching neither the pending event
\* nor a catalog event, or with an option id the event does not have,
\* returns an error and leaves the pending event in place
C23_UnknownChoiceRejected ==
    [][\A event_id \in EventIds, option_id \in OptionIds :
         (ResolveWith(event_id, option_id) /\ UnknownChoice(event_id, option_id))
           => /\ result'.status = "error"
              /\ state'.last_event = state.last_event]_vars

\* new is old with one entry appended and, beyond the bound, its oldest
\* entry dropped
Rolled(old, new, bound) ==
    /\ new # <<>>
    /\ Len(new) = (IF Len(old) < bound THEN Len(old) + 1 ELSE bound)
    /\ \A i \in 1..(Len(new) - 1) : new[i] = old[Len(old) - Len(new) + 1 + i]

\* C24: the rolling histories stay within their bounds (theme history 8,
\* decision memory 12, stats history 5) and keep the most recent entries in
\* order, an append beyond the bound dropping the oldest entry: a turn
\* appends the stats it started from, a resolution appends a theme and a
\* decision together, and nothing else touches the histories
C24_HistoriesBounded ==
    [][/\ Len(state'.theme_history) <= 8
       /\ Len(state'.decision_memory) <= 12
       /\ Len(state'.stats_history) <= 5
       /\ result'.status # "reset"
            => /\ IF TurnStep
                  THEN /\ Rolled(state.stats_history, state'.stats_history, 5)
                       /\ state'.stats_history[Len(state'.stats_history)]
                            = state.stats
                  ELSE state'.stats_history = state.stats_history
               /\ \/ /\ op' = "resolve_event"
                     /\ Rolled(state.theme_history, state'.theme_history, 8)
                     /\ Rolled(state.decision_memory, state'.decision_memory, 12)
                  \/ /\ state'.theme_history = state.theme_history
                     /\ state'.decision_memory = state.decision_memory]_vars

\* an event resolved and a turn made with all three histories full
C24_Witness ==
    /\ Len(state.theme_history) = 8
    /\ state.theme_history[8] \notin Range(OldThemes)
    /\ state.theme_history[1] = "t2"
    /\ Len(state.decision_memory) = 12
    /\ state.decision_memory[12].year > 0
    /\ state.decision_memory[1] = OldDecision(2)
    /\ Len(state.stats_history) = 5
    /\ state.stats_history[1] = OldStats(engine, 2)

\* an event without the blocking annotations a view writes on its options
Unannotated(ev) ==
    [ev EXCEPT !.options = [i \in DOMAIN @ |-> [@[i] EXCEPT !.blocked = "unset"]]]

\* C25: after any sequence of operations every catalog event has exactly the
\* options and fields it was loaded with, blocking annotations apart
C25_CatalogReadOnly ==
    all_events # <<>>
      => /\ Len(all_events) = Len(db_events)
         /\ \A i \in DOMAIN all_events :
               Unannotated(all_events[i]) = Unannotated(db_events[i])

\* C26: load_data never raises, whatever files are missing or malformed;
\* a file that cannot be read degrades to an empty collection (empty rules
\* and themes for the config, empty lists for policies and events)
C26_LoadDegrades ==
    load.done
      => /\ ~load.out.raised
         /\ load.files.config.state \in Unreadable
              => /\ load.out.db.config = JDict({})
                 /\ load.out.db.themes = JDict({})
         /\ load.files.policies.state \in Unreadable
              => load.out.db.policies = JList(0)
         /\ load.files.events.state \in Unreadable
              => load.out.db.events = JList(0)

\* C27: with an empty event catalog advance-turn does not raise, and no
\* turn that advanced the counter is left without its terminal check
C27_EmptyCatalogTurn ==
    (op = "process_turn" /\ all_events = <<>>)
      => /\ result.status # "raise"
         /\ Terminal(state.stats) => state.game_over


\* the shape the generator promises: the five fields of an event and two
\* options A and B, each with text, response and a numeric effect map
WellFormedEvent(ev) ==
    /\ ev.kind = "event"
    /\ {"id", "title", "text", "theme", "drama_weight"} \subseteq ev.fields
    /\ Len(ev.options) = 2
    /\ ev.options[1].id = "A"
    /\ ev.options[2].id = "B"
    /\ \A i \in DOMAIN ev.options :
          /\ {"text", "response", "effect"} \subseteq ev.options[i].fields
          /\ \A stat \in DOMAIN ev.options[i].effect :
                ev.options[i].effect[stat] \in Int

\* C28: with no model attached, whenever some archetype of the lexicon is
\* viable in the game state and has a framework, generate_event returns a
\* well-formed event, whatever the archetype's core mechanics, the empty
\* map included
C28_FallbackEvent ==
    (/\ gen.done
     /\ \E a \in Range(gen.lexicon) :
           /\ archetype_is_viable(a, gen.game_state)
           /\ select_framework(gen.frameworks, a.archetype_id) # {})
      => WellFormedEvent(gen.out)


\* the output of the rule filter of the Director called
SelThemes == {SelViable[i].tema : i \in DOMAIN SelViable}

\* C29: the rule filter lets a "hubris" event through only with treasury
\* >= 60 and a "despair" ("desespero") event only with treasury <= 50, so
\* for no treasury are both themes in its output
C29_ResourceCoherence ==
    sel.done
      => /\ "hubris" \in SelThemes => sel.gamestate.stats.tesouro >= 60
         /\ "desespero" \in SelThemes => sel.gamestate.stats.tesouro <= 50
         /\ ~({"hubris", "desespero"} \subseteq SelThemes)

\* a "management" event the trigger gate of rules.py lets through
SelOpenManagement ==
    \E i \in DOMAIN sel.eventos :
        /\ sel.eventos[i].tema = "gestao"
        /\ ~regra_gatilhos(sel.eventos[i], sel.gamestate)

\* C30: the rule filter lets no event through whose theme is among the last
\* two of the theme history, "game_over" and "management" ("gestao") apart,
\* which the anti-repetition rule never rejects: with a "management" event
\* free of unmet high-drama triggers in the catalog its output is not empty
C30_ManagementExempt ==
    sel.done
      => /\ \A t \in SelThemes :
               t \in LastTwo(sel.gamestate.ultimos_temas)
                 => t \in {"game_over", "gestao"}
         /\ SelOpenManagement => SelViable # <<>>


\* the event declares triggers and the game state carries none of them
UnmetTriggers(ev, gamestate) ==
    /\ ev.gatilho_semantico # <<>>
    /\ \A i \in DOMAIN ev.gatilho_semantico :
          /\ ev.gatilho_semantico[i] \notin Range(gamestate.tags_estado)
          /\ ev.gatilho_semantico[i] \notin Range(gamestate.tags_reputacao)

IsRanking(ranked, eventos, gamestate, n) ==
    LET score(ev) == calcular_relevancia(ev, gamestate)
    IN /\ Len(ranked) <= n
       /\ Len(ranked) <= Len(eventos)
       /\ Len(ranked) = n \/ Len(ranked) = Len(eventos)
       /\ \E p \in [DOMAIN ranked -> DOMAIN eventos] :
             /\ \A k \in DOMAIN ranked : ranked[k] = eventos[p[k]]
             /\ \A k, l \in DOMAIN ranked :
                   k < l => \/ score(ranked[k]) > score(ranked[l])
                            \/ /\ score(ranked[k]) = score(ranked[l])
                               /\ p[k] < p[l]
             /\ \A i \in DOMAIN eventos :
                   (\A k \in DOMAIN ranked : p[k] # i)
                     => \A k \in DOMAIN ranked :
                           score(eventos[i]) <= score(ranked[k])

C33_CooldownCountsDown ==
    [][/\ \A p \in DOMAIN state'.blocked_policies :
             state'.blocked_policies[p] \in 1..LockTurns
       /\ (op' = "toggle_policy" /\ result'.status = "ok")
            => \A p \in Range(state'.active_policies)
                         \ Range(state.active_policies) :
                  /\ p \in DOMAIN state'.blocked_policies
                  /\ state'.blocked_policies[p] = LockTurns
       /\ TurnStep
            => /\ DOMAIN state'.blocked_policies
                    = {p \in DOMAIN state.blocked_policies :
                         state.blocked_policies[p] > 1}
               /\ \A p \in DOMAIN state'.blocked_policies :
                     state'.blocked_policies[p] = state.blocked_policies[p] - 1
      ]_vars

\* serfdom was revoked and enacted again in the first year (stability 50
\* less two toggles) and the eighth advance-turn since has just dropped its
\* cooldown entry
C33_Witness ==
    /\ op = "process_turn"
    /\ state.turn = LockTurns + 1
    /\ state.stats["stability"] = 30
    /\ "serfdom" \in Range(state.active_policies)
    /\ "serfdom" \notin DOMAIN state.blocked_policies


\* what the activation cost of a policy takes from stability
ActivationStability(pol) ==
    LET at == {i \in DOMAIN pol.activation_cost :
                 pol.activation_cost[i].k = "stability"}
    IN IF at = {} THEN 0 ELSE pol.activation_cost[CHOOSE i \in at : TRUE].v

\* C34: a toggle is accepted only with stability at least the toggle cost
\* (10, or 20 when the policy's aversion list meets the reputation tags);
\* an accepted toggle flips the policy's membership in the active set and
\* lowers stability by exactly the toggle cost, on top of the activation
\* cost when it enacts
C34_ToggleCost ==
    [][\A policy_id \in PolicyIds :
         (ToggleWith(policy_id) /\ result'.status = "ok")
           => LET pol == FindPolicy(policy_id)
                  averse == \E i \in DOMAIN pol.aversion :
                               pol.aversion[i] \in get_reputation_tags(state)
                  cost == IF averse THEN 20 ELSE 10
                  was == policy_id \in Range(state.active_policies)
                  activation == IF was THEN 0 ELSE ActivationStability(pol)
              IN /\ state.stats["stability"] >= cost
                 /\ was <=> policy_id \notin Range(state'.active_policies)
                 /\ state'.stats["stability"]
                      = state.stats["stability"] + activation - cost]_vars


\* the state of a session just created, field by field
FreshSession(st) ==
    /\ st.turn = 1
    /\ \A s \in DOMAIN st.stats : st.stats[s] = 50
    /\ StatNames \subseteq DOMAIN st.stats
    /\ st.active_policies = <<"serfdom", "absolutism">>
    /\ DOMAIN st.blocked_policies = {}
    /\ st.event_tags = <<>>
    /\ st.decision_memory = <<>>
    /\ st.stats_history = <<>>
    /\ st.theme_history = <<>>
    /\ st.last_event = None
    /\ ~st.game_over
    /\ st.state_tags = <<>>

\* C35: a resolve-event with event id 99999 or option id RESET is accepted
\* in any state and leaves the session as a session just created; no other
\* call takes a session that has moved on back to that state
C35_ResetRestoresFresh ==
    [][/\ \A event_id \in EventIds, option_id \in OptionIds :
             ((event_id = 99999 \/ option_id = "RESET")
                /\ ResolveWith(event_id, option_id))
               => /\ result'.status = "reset"
                  /\ FreshSession(state')
                  /\ state' = NewGame(engine)
       /\ (FreshSession(state') /\ ~FreshSession(state))
            => result'.status = "reset"]_vars

\* a reset of a session that had advanced a turn (the catalog carries the
\* Director's mark)
C35_Witness ==
    /\ op = "resolve_event"
    /\ result.status = "reset"
    /\ \E i \in DOMAIN all_events : all_events[i].selection_method # "unset"
    /\ FreshSession(state)


\* C36: no two policies are active at once of which one lists the other
\* in its incompatible_with, the case the view marks "Incompatible"
C36_NoIncompatiblePair ==
    \A p, q \in Range(state.active_policies) :
        HasPolicy(p) => q \notin Range(FindPolicy(p).incompatible_with)


\* the event pending in the session has the given id
PendingIs(event_id) ==
    /\ state.last_event.kind # "none"
    /\ SameId(Deref(state.last_event, all_events).id, event_id)

\* C37: a resolve-event naming an event that is not the pending one (no
\* event pending after a resolution, or another event of the catalog)
\* changes neither the stats nor the reputation tags; a reset apart
C37_OnlyPendingResolves ==
    [][\A event_id \in EventIds, option_id \in OptionIds :
         (/\ event_id # 99999 /\ option_id # "RESET"
          /\ ~PendingIs(event_id)
          /\ ResolveWith(event_id, option_id))
           => /\ state'.stats = state.stats
              /\ get_reputation_tags(state') = get_reputation_tags(state)]_vars


\* the options of the pending event in a view's outcome
ViewedOptions(o) ==
    IF o.state.last_event = None THEN <<>>
    ELSE Deref(o.state.last_event, o.events).options

\* C38: a view requested right after a view returns the same list of options
\* for the pending event as the first did, with at most one COLLAPSE option
\* in it, whatever the stats are
C38_ViewIdempotent ==
    LET first == DoView(state, all_events)
        second == DoView(first.state, first.events)
    IN /\ ViewedOptions(second) = ViewedOptions(first)
       /\ Cardinality({i \in DOMAIN ViewedOptions(second) :
                          ViewedOptions(second)[i].id = "COLLAPSE"}) <= 1


\* C39: after a player action that changed the stats (advance-turn,
\* resolve-event, toggle-policy, reset) the stored state tags are the
\* threshold tags of the new stats, and so are the state tags within the
\* combined tags
C39_StateTagsFollowStats ==
    [][(/\ op' \in {"process_turn", "resolve_event", "toggle_policy"}
        /\ state'.stats # state.stats)
          => /\ Range(state'.state_tags) = Range(state_tags_of(state'.stats))
             /\ get_all_tags(state') =
                   get_reputation_tags(state')
                      \cup Range(state_tags_of(state'.stats))]_vars


\* C40: whenever the game-over flag is set the pending event is the terminal
\* event, id 99999 of theme "game_over" with RESET as its single option;
\* no resolve-event after game over clears or replaces it
C40_TerminalStaysPending ==
    state.game_over
       => /\ state.last_event # None
          /\ Pending.id = 99999
          /\ Pending.theme = "game_over"
          /\ Len(Pending.options) = 1
          /\ Pending.options[1].id = "RESET"

====
